---- MODULE Spec2Model ----
(***************************************************************************)
(* Model of the bytecraft cursor engine: ByteReader (src/reader/mod.rs),   *)
(* ByteWriter (src/writer/mod.rs) and the built-in Readable / Peekable /   *)
(* Writable codecs for numbers, bool, fixed arrays, tuples and Vec.         *)
(*                                                                         *)
(* A cursor is a record [data, pos, endian].  Every method of the source   *)
(* is an operator from the cursor (and its arguments) to a record          *)
(* [self |-> the cursor afterwards, ret |-> the value returned]; the       *)
(* actions apply these operators to the state.                             *)
(*                                                                         *)
(* usize / isize are modelled with UsizeBits bits instead of 64, so that   *)
(* arguments near usize::MAX and isize::MIN can be enumerated.  Whether an *)
(* arithmetic overflow panics or wraps depends on the build profile; the   *)
(* operators that can overflow take that choice as `overflow_checks`.      *)
(***************************************************************************)
EXTENDS Integers, Sequences, FiniteSets, TLC

VARIABLES
    kind,             \* which cursor the program holds: "reader" or "writer"
    reader,           \* ByteReader { data, pos, endian }
    writer,           \* ByteWriter { data, pos, endian }
    rret,             \* the last ByteReader call: [op, arg, res]
    wret,             \* the last ByteWriter call: [op, arg, res]
    target_endian,    \* cfg(target_endian) of the build
    frame             \* the locals of a [T; N] decode in progress, and the
                      \* count of constructions and destructions of each slot

vars == <<kind, reader, writer, rret, wret, target_endian, frame>>

----------------------------------------------------------------------------
(* Bounds *)

UsizeBits == 6

RECURSIVE Pow(_, _)
Pow(b, e) == IF e = 0 THEN 1 ELSE b * Pow(b, e - 1)

USIZE_MAX == Pow(2, UsizeBits) - 1
ISIZE_MAX == Pow(2, UsizeBits - 1) - 1
ISIZE_MIN == 0 - Pow(2, UsizeBits - 1)

Usize == 0..USIZE_MAX
Isize == ISIZE_MIN..ISIZE_MAX

Min(a, b) == IF a <= b THEN a ELSE b

----------------------------------------------------------------------------
(* common.rs *)

Endian == {"Little", "Big", "Native"}

SeekFrom ==
    [tag : {"Start"}, n : Usize] \cup [tag : {"End", "Current"}, n : Isize]

----------------------------------------------------------------------------
(* error.rs *)

InsufficientData(requested, available) ==
    [tag |-> "InsufficientData", requested |-> requested, available |-> available]

OutOfBounds(pos, requested, len) ==
    [tag |-> "OutOfBounds", pos |-> pos, requested |-> requested, len |-> len]

NotValid == [tag |-> "NotValid"]

NotValidAscii == [tag |-> "NotValidAscii"]

NotValidUTF8 == [tag |-> "NotValidUTF8"]

\* Error::Custom(Box<dyn Error>), here the boxed FromVecWithNulError
Custom == [tag |-> "Custom"]

Ok(v) == [tag |-> "Ok", val |-> v]

\* a panic unwinds out of the call; it is not a value of Result
Panic == [tag |-> "Panic"]

Unit == <<>>

\* no [T; N] decode is in progress
NoFrame == [pc |-> "none"]

IsOk(r) == r.tag = "Ok"

IsErr(r) == r.tag \notin {"Ok", "Panic"}

----------------------------------------------------------------------------
(* usize arithmetic as the machine performs it *)

checked_add(a, b) == IF a + b <= USIZE_MAX THEN Ok(a + b) ELSE [tag |-> "None"]

checked_sub(a, b) == IF a >= b THEN Ok(a - b) ELSE [tag |-> "None"]

saturating_add(a, b) == IF a + b <= USIZE_MAX THEN a + b ELSE USIZE_MAX

saturating_sub(a, b) == IF a >= b THEN a - b ELSE 0

wrapping_add(a, b) == (a + b) % (USIZE_MAX + 1)

add_overflows(a, b) == a + b > USIZE_MAX

\* `n as usize` for n: isize (two's complement reinterpretation)
isize_as_usize(n) == IF n >= 0 THEN n ELSE n + USIZE_MAX + 1

\* `-n` for n: isize without overflow checks (isize::MIN negates to itself)
wrapping_neg(n) == IF n = ISIZE_MIN THEN ISIZE_MIN ELSE 0 - n

RECURSIVE BitAndN(_, _, _)
BitAndN(a, b, bits) ==
    IF bits = 0 THEN 0
    ELSE (IF a % 2 = 1 /\ b % 2 = 1 THEN 1 ELSE 0)
         + 2 * BitAndN(a \div 2, b \div 2, bits - 1)

BitAnd(a, b) == BitAndN(a, b, UsizeBits)

BitNot(a) == USIZE_MAX - a

is_power_of_two(a) == a > 0 /\ BitAnd(a, a - 1) = 0

PowersOfTwo == {a \in Usize : is_power_of_two(a)}

----------------------------------------------------------------------------
(* Built-in numeric types of the codecs (readable.rs, writable.rs) *)

\* The 64- and 128-bit types, usize, isize, f32 and f64 go through the same
\* macro; their values do not fit the integers of the model checker.  For the
\* same reason u32 is decoded only from bytes whose value is below 2^31: the
\* buffers that are read are chosen so that no 4-byte window has a top bit set.
NumTypes == {"u8", "i8", "u16", "i16", "u32", "i32"}

size_of(T) ==
    CASE T \in {"u8", "i8", "bool"} -> 1
      [] T \in {"u16", "i16"} -> 2
      [] T \in {"u32", "i32"} -> 4

is_signed(T) == T \in {"i8", "i16", "i32"}

Reverse(s) == [i \in 1..Len(s) |-> s[Len(s) + 1 - i]]

\* T::to_le_bytes: the two's-complement bytes, least significant first
RECURSIVE le_bytes(_, _)
le_bytes(v, n) ==
    IF n = 0 THEN <<>> ELSE <<v % 256>> \o le_bytes(v \div 256, n - 1)

to_le_bytes(T, v) == le_bytes(v, size_of(T))

to_be_bytes(T, v) == Reverse(le_bytes(v, size_of(T)))

to_ne_bytes(T, v) ==
    IF target_endian = "Little" THEN to_le_bytes(T, v) ELSE to_be_bytes(T, v)

\* the unsigned value of bytes given least significant first
RECURSIVE le_value(_)
le_value(bytes) ==
    IF bytes = <<>> THEN 0 ELSE bytes[1] + 256 * le_value(Tail(bytes))

\* T::from_le_bytes: the top byte carries the sign of a signed type
from_le_bytes(T, bytes) ==
    LET n == size_of(T)
        top == IF is_signed(T) /\ bytes[n] >= 128 THEN bytes[n] - 256 ELSE bytes[n]
    IN  le_value(SubSeq(bytes, 1, n - 1)) + top * Pow(256, n - 1)

from_be_bytes(T, bytes) == from_le_bytes(T, Reverse(bytes))

from_ne_bytes(T, bytes) ==
    IF target_endian = "Little" THEN from_le_bytes(T, bytes) ELSE from_be_bytes(T, bytes)

\* core::str::from_utf8: TRUE iff bytes is well-formed UTF-8
RECURSIVE is_utf8(_)
is_utf8(b) ==
    LET n == Len(b)
        cont(i) == i <= n /\ b[i] >= 128 /\ b[i] <= 191
        rng(i, lo, hi) == i <= n /\ b[i] >= lo /\ b[i] <= hi
        rest(k) == is_utf8(SubSeq(b, k + 1, n))
    IN  IF n = 0 THEN TRUE
        ELSE CASE b[1] <= 127 -> rest(1)
               [] b[1] >= 194 /\ b[1] <= 223 -> cont(2) /\ rest(2)
               [] b[1] = 224 -> rng(2, 160, 191) /\ cont(3) /\ rest(3)
               [] b[1] >= 225 /\ b[1] <= 236 -> cont(2) /\ cont(3) /\ rest(3)
               [] b[1] = 237 -> rng(2, 128, 159) /\ cont(3) /\ rest(3)
               [] b[1] >= 238 /\ b[1] <= 239 -> cont(2) /\ cont(3) /\ rest(3)
               [] b[1] = 240 -> rng(2, 144, 191) /\ cont(3) /\ cont(4) /\ rest(4)
               [] b[1] >= 241 /\ b[1] <= 243 -> cont(2) /\ cont(3) /\ cont(4) /\ rest(4)
               [] b[1] = 244 -> rng(2, 128, 143) /\ cont(3) /\ cont(4) /\ rest(4)
               [] OTHER -> FALSE

\* str::is_ascii
is_ascii(b) == \A i \in 1..Len(b) : b[i] < 128

----------------------------------------------------------------------------
(* ByteReader (reader/mod.rs).  Each operator returns [self, ret]. *)

Out(self, ret) == [self |-> self, ret |-> ret]

ByteReader_new(data) == [data |-> data, pos |-> 0, endian |-> "Native"]

ByteReader_with_endian(data, endian) == [data |-> data, pos |-> 0, endian |-> endian]

ByteReader_len(self) == Len(self.data)

ByteReader_position(self) == self.pos

ByteReader_rest_len(self) == ByteReader_len(self) - ByteReader_position(self)

\* mutant: changing the mode also rewinds the cursor
ByteReader_set_endian_resetting(self, endian) ==
    Out([self EXCEPT !.endian = endian, !.pos = 0], Ok(Unit))

ByteReader_set_endian(self, endian) == Out([self EXCEPT !.endian = endian], Ok(Unit))

ByteReader_set_position(self, pos) ==
    IF pos > ByteReader_len(self)
    THEN Out(self, OutOfBounds(self.pos, pos, ByteReader_len(self)))
    ELSE Out([self EXCEPT !.pos = pos], Ok(Unit))

\* mutant: the sum wraps instead of being checked
ByteReader_skip_wrapping(self, count) ==
    LET sum == wrapping_add(self.pos, count)
    IN  IF sum <= ByteReader_len(self)
        THEN Out([self EXCEPT !.pos = sum], Ok(Unit))
        ELSE Out(self, OutOfBounds(self.pos, count, ByteReader_len(self)))

ByteReader_skip(self, count) ==
    LET sum == checked_add(self.pos, count)
    IN  IF IsOk(sum) /\ sum.val <= ByteReader_len(self)
        THEN Out([self EXCEPT !.pos = sum.val], Ok(Unit))
        ELSE Out(self, OutOfBounds(self.pos, count, ByteReader_len(self)))

\* mutant: the clamp to len() is forgotten
ByteReader_skip_force_unclamped(self, count) ==
    Out([self EXCEPT !.pos = saturating_add(self.pos, count)], Ok(Unit))

ByteReader_skip_force(self, count) ==
    Out([self EXCEPT !.pos = Min(saturating_add(self.pos, count), ByteReader_len(self))],
        Ok(Unit))

\* (pos + (ALIGNMENT - 1)) & !(ALIGNMENT - 1)
align_expr(pos, alignment) ==
    BitAnd(wrapping_add(pos, alignment - 1), BitNot(alignment - 1))

\* mutant: the position is rounded down to the boundary
ByteReader_align_up_rounding_down(self, ALIGNMENT, overflow_checks) ==
    ByteReader_set_position(self, BitAnd(ByteReader_position(self), BitNot(ALIGNMENT - 1)))

ByteReader_align_up(self, ALIGNMENT, overflow_checks) ==
    IF add_overflows(ByteReader_position(self), ALIGNMENT - 1) /\ overflow_checks
    THEN Out(self, Panic)
    ELSE ByteReader_set_position(self, align_expr(ByteReader_position(self), ALIGNMENT))

\* mutant: the aligned position is stored without the clamp to len()
ByteReader_align_up_force_unclamped(self, ALIGNMENT, overflow_checks) ==
    Out([self EXCEPT !.pos = align_expr(ByteReader_position(self), ALIGNMENT)], Ok(Unit))

ByteReader_align_up_force(self, ALIGNMENT, overflow_checks) ==
    IF add_overflows(ByteReader_position(self), ALIGNMENT - 1) /\ overflow_checks
    THEN Out(self, Panic)
    ELSE Out([self EXCEPT !.pos = Min(align_expr(ByteReader_position(self), ALIGNMENT),
                                      ByteReader_len(self))],
             Ok(Unit))

\* mutant: the alignment is used without being validated
ByteReader_align_up_dynamic_unvalidated(self, alignment, overflow_checks) ==
    ByteReader_set_position(self, align_expr(ByteReader_position(self), alignment))

ByteReader_align_up_dynamic(self, alignment, overflow_checks) ==
    IF ~is_power_of_two(alignment)
    THEN Out(self, NotValid)
    ELSE IF add_overflows(ByteReader_position(self), alignment - 1) /\ overflow_checks
         THEN Out(self, Panic)
         ELSE ByteReader_set_position(self, align_expr(ByteReader_position(self), alignment))

ByteReader_rewind(self, count) ==
    LET diff == checked_sub(self.pos, count)
    IN  IF IsOk(diff)
        THEN Out([self EXCEPT !.pos = diff.val], Ok(Unit))
        ELSE Out(self, OutOfBounds(self.pos, count, ByteReader_len(self)))

ByteReader_rewind_force(self, count) ==
    Out([self EXCEPT !.pos = saturating_sub(self.pos, count)], Ok(Unit))

\* mutant: a positive End offset is reported resolved, as len() + n
ByteReader_seek_target_end_resolved(self, from, overflow_checks) ==
    LET len == ByteReader_len(self)
        neg == isize_as_usize(wrapping_neg(from.n))
    IN  CASE from.tag = "Start" -> Ok(from.n)
          [] from.tag = "End" /\ from.n > 0 ->
                OutOfBounds(self.pos, len + isize_as_usize(from.n), len)
          [] from.tag = "End" /\ from.n <= 0 ->
                IF from.n = ISIZE_MIN /\ overflow_checks THEN Panic
                ELSE IF IsOk(checked_sub(len, neg)) THEN checked_sub(len, neg)
                ELSE OutOfBounds(self.pos, neg, len)
          [] from.tag = "Current" /\ from.n > 0 ->
                IF IsOk(checked_add(self.pos, isize_as_usize(from.n)))
                THEN checked_add(self.pos, isize_as_usize(from.n))
                ELSE OutOfBounds(self.pos, isize_as_usize(from.n), len)
          [] from.tag = "Current" /\ from.n <= 0 ->
                IF from.n = ISIZE_MIN /\ overflow_checks THEN Panic
                ELSE IF IsOk(checked_sub(self.pos, neg)) THEN checked_sub(self.pos, neg)
                ELSE OutOfBounds(self.pos, neg, len)

\* the target of a seek: Ok(new_pos), Err(OutOfBounds) or Panic
ByteReader_seek_target(self, from, overflow_checks) ==
    LET len == ByteReader_len(self)
        neg == isize_as_usize(wrapping_neg(from.n))
    IN  CASE from.tag = "Start" -> Ok(from.n)
          [] from.tag = "End" /\ from.n > 0 ->
                OutOfBounds(self.pos, isize_as_usize(from.n), len)
          [] from.tag = "End" /\ from.n <= 0 ->
                IF from.n = ISIZE_MIN /\ overflow_checks THEN Panic
                ELSE IF IsOk(checked_sub(len, neg)) THEN checked_sub(len, neg)
                ELSE OutOfBounds(self.pos, neg, len)
          [] from.tag = "Current" /\ from.n > 0 ->
                IF IsOk(checked_add(self.pos, isize_as_usize(from.n)))
                THEN checked_add(self.pos, isize_as_usize(from.n))
                ELSE OutOfBounds(self.pos, isize_as_usize(from.n), len)
          [] from.tag = "Current" /\ from.n <= 0 ->
                IF from.n = ISIZE_MIN /\ overflow_checks THEN Panic
                ELSE IF IsOk(checked_sub(self.pos, neg)) THEN checked_sub(self.pos, neg)
                ELSE OutOfBounds(self.pos, neg, len)

\* mutant: the resolved target is stored without set_position's check
ByteReader_seek_unchecked(self, from, overflow_checks) ==
    LET new_pos == ByteReader_seek_target(self, from, overflow_checks)
    IN  IF ~IsOk(new_pos) THEN Out(self, new_pos)
        ELSE Out([self EXCEPT !.pos = new_pos.val], Ok(new_pos.val))

ByteReader_seek(self, from, overflow_checks) ==
    LET new_pos == ByteReader_seek_target(self, from, overflow_checks)
    IN  IF ~IsOk(new_pos) THEN Out(self, new_pos)
        ELSE LET set == ByteReader_set_position(self, new_pos.val)
             IN  IF IsOk(set.ret) THEN Out(set.self, Ok(set.self.pos)) ELSE set

ByteReader_reset(self) == Out([self EXCEPT !.pos = 0], Ok(Unit))

\* mutant: the whole length is reported as available
ByteReader_check_bounds_whole_len(self, size) ==
    LET sum == checked_add(self.pos, size)
    IN  IF IsOk(sum) /\ sum.val <= ByteReader_len(self)
        THEN Ok(Unit)
        ELSE InsufficientData(size, ByteReader_len(self))

ByteReader_check_bounds(self, size) ==
    LET sum == checked_add(self.pos, size)
    IN  IF IsOk(sum) /\ sum.val <= ByteReader_len(self)
        THEN Ok(Unit)
        ELSE InsufficientData(size, ByteReader_len(self) - ByteReader_position(self))

\* mutant: peek_exact advances like read_exact
ByteReader_peek_exact_advancing(self, size) ==
    IF IsOk(ByteReader_check_bounds(self, size))
    THEN Out([self EXCEPT !.pos = self.pos + size],
             Ok(SubSeq(self.data, self.pos + 1, self.pos + size)))
    ELSE Out(self, ByteReader_check_bounds(self, size))

ByteReader_peek_exact(self, size) ==
    IF IsOk(ByteReader_check_bounds(self, size))
    THEN Out(self, Ok(SubSeq(self.data, self.pos + 1, self.pos + size)))
    ELSE Out(self, ByteReader_check_bounds(self, size))

\* mutant: the slice is taken from the start of the buffer, not from pos
ByteReader_read_exact_from_start(self, size) ==
    IF IsOk(ByteReader_check_bounds(self, size))
    THEN Out([self EXCEPT !.pos = self.pos + size], Ok(SubSeq(self.data, 1, size)))
    ELSE Out(self, ByteReader_check_bounds(self, size))

ByteReader_read_exact(self, size) ==
    IF IsOk(ByteReader_check_bounds(self, size))
    THEN Out([self EXCEPT !.pos = self.pos + size],
             Ok(SubSeq(self.data, self.pos + 1, self.pos + size)))
    ELSE Out(self, ByteReader_check_bounds(self, size))

ByteReader_peek_bytes(self, size) == ByteReader_peek_exact(self, size)

ByteReader_read_bytes(self, size) == ByteReader_read_exact(self, size)

ByteReader_read_vec(self, size) == ByteReader_read_exact(self, size)

\* mutant: the bytes are tested for ASCII before they are tested for UTF-8
ascii_result_ascii_first(bytes) ==
    IF ~is_ascii(bytes) THEN NotValidAscii
    ELSE IF is_utf8(bytes) THEN Ok(bytes) ELSE NotValidUTF8

\* the match on from_utf8 / is_ascii shared by peek_ascii and read_ascii
ascii_result(bytes) ==
    IF is_utf8(bytes)
    THEN IF is_ascii(bytes) THEN Ok(bytes) ELSE NotValidAscii
    ELSE NotValidUTF8

ByteReader_peek_ascii(self, size) ==
    LET got == ByteReader_peek_exact(self, size)
    IN  IF IsOk(got.ret) THEN Out(got.self, ascii_result(got.ret.val)) ELSE got

ByteReader_read_ascii(self, size) ==
    LET got == ByteReader_read_exact(self, size)
    IN  IF IsOk(got.ret) THEN Out(got.self, ascii_result(got.ret.val)) ELSE got

\* impl Read for ByteReader: Ok(to_read) and the bytes copied into buf
ByteReader_io_read(self, buf_len) ==
    IF ByteReader_rest_len(self) = 0
    THEN Out(self, Ok([n |-> 0, bytes |-> <<>>]))
    ELSE LET to_read == Min(ByteReader_rest_len(self), buf_len)
         IN  Out([self EXCEPT !.pos = self.pos + to_read],
                 Ok([n |-> to_read,
                     bytes |-> SubSeq(self.data, self.pos + 1, self.pos + to_read)]))

----------------------------------------------------------------------------
(* Readable (reader/readable.rs) and Peekable (reader/peekable.rs) *)

\* mutant: Native is decoded as Little whatever the target
decode_number_native_as_little(T, endian, data) ==
    CASE endian = "Little" -> from_le_bytes(T, data)
      [] endian = "Big" -> from_be_bytes(T, data)
      [] endian = "Native" -> from_le_bytes(T, data)

\* the endianness dispatch of impl_number
decode_number(T, endian, data) ==
    CASE endian = "Little" -> from_le_bytes(T, data)
      [] endian = "Big" -> from_be_bytes(T, data)
      [] endian = "Native" -> from_ne_bytes(T, data)

\* impl_number!: Readable::read for a numeric type
Readable_read_number(T, s) ==
    LET got == ByteReader_read_exact(s, size_of(T))
    IN  IF IsOk(got.ret)
        THEN Out(got.self, Ok(decode_number(T, got.self.endian, got.ret.val)))
        ELSE got

\* mutant: every non-zero byte decodes to true
Readable_read_bool_nonzero_true(s) ==
    LET got == Readable_read_number("u8", s)
    IN  IF IsOk(got.ret)
        THEN CASE got.ret.val = 0 -> Out(got.self, Ok(FALSE))
               [] OTHER -> Out(got.self, Ok(TRUE))
        ELSE got

\* impl Readable for bool
Readable_read_bool(s) ==
    LET got == Readable_read_number("u8", s)
    IN  IF IsOk(got.ret)
        THEN CASE got.ret.val = 0 -> Out(got.self, Ok(FALSE))
               [] got.ret.val = 1 -> Out(got.self, Ok(TRUE))
               [] OTHER -> Out(got.self, NotValid)
        ELSE got

\* mutant: the peeked bytes are always decoded as little-endian
Peekable_peek_number_little(T, s) ==
    LET got == ByteReader_peek_exact(s, size_of(T))
    IN  IF IsOk(got.ret)
        THEN Out(got.self, Ok(from_le_bytes(T, got.ret.val)))
        ELSE got

\* impl_number!: Peekable::peek for a numeric type
Peekable_peek_number(T, s) ==
    LET got == ByteReader_peek_exact(s, size_of(T))
    IN  IF IsOk(got.ret)
        THEN Out(got.self, Ok(decode_number(T, got.self.endian, got.ret.val)))
        ELSE got

\* impl Peekable for bool
Peekable_peek_bool(s) ==
    LET got == Peekable_peek_number("u8", s)
    IN  IF IsOk(got.ret)
        THEN CASE got.ret.val = 0 -> Out(got.self, Ok(FALSE))
               [] got.ret.val = 1 -> Out(got.self, Ok(TRUE))
               [] OTHER -> Out(got.self, NotValid)
        ELSE got

\* ByteReader::read::<R>()
ByteReader_read(self, R) ==
    IF R = "bool" THEN Readable_read_bool(self) ELSE Readable_read_number(R, self)

\* ByteReader::peek::<P>()
ByteReader_peek(self, P) ==
    IF P = "bool" THEN Peekable_peek_bool(self) ELSE Peekable_peek_number(P, self)

\* mutant: a peek through the view consumes what it returns
PeekStream_peek_advancing(self, P) == ByteReader_read(self, P)

\* PeekStream::peek::<P>(): self.reader.peek::<P>()
PeekStream_peek(self, P) == ByteReader_peek(self, P)

----------------------------------------------------------------------------
(* Readable for tuples, Vec<T> and [T; N] (reader/readable.rs).  The       *)
(* elements are of the numeric types and bool.                             *)

\* impl_tupple!: Ok((s.read::<T0>()?, s.read::<T1>()?, ...))
RECURSIVE Readable_read_tuple(_, _)
Readable_read_tuple(Types, s) ==
    IF Types = <<>> THEN Out(s, Ok(<<>>))
    ELSE LET first == ByteReader_read(s, Head(Types))
         IN  IF ~IsOk(first.ret) THEN first
             ELSE LET rest == Readable_read_tuple(Tail(Types), first.self)
                  IN  IF IsOk(rest.ret)
                      THEN Out(rest.self, Ok(<<first.ret.val>> \o rest.ret.val))
                      ELSE rest

\* Readable for Vec<T>: for _ in 0..size { result.push(s.read()?) }; Ok(result)
RECURSIVE Vec_read_elements(_, _, _, _)
Vec_read_elements(T, s, size, result) ==
    IF size = 0 THEN Out(s, Ok(result))
    ELSE LET val == ByteReader_read(s, T)
         IN  IF ~IsOk(val.ret) THEN val
             ELSE Vec_read_elements(T, val.self, size - 1, Append(result, val.ret.val))

\* mutant: the count is always decoded as little-endian
Readable_read_Vec_count_little(T, s) ==
    LET size == Readable_read_number("u32", [s EXCEPT !.endian = "Little"])
    IN  IF ~IsOk(size.ret) THEN Out(s, size.ret)
        ELSE Vec_read_elements(T, [size.self EXCEPT !.endian = s.endian],
                               size.ret.val, <<>>)

\* Readable for Vec<T>: a u32 count, then that many elements.  The
\* allocation of Vec::with_capacity(size) is taken to succeed.
Readable_read_Vec(T, s) ==
    LET size == Readable_read_number("u32", s)
    IN  IF ~IsOk(size.ret) THEN size
        ELSE Vec_read_elements(T, size.self, size.ret.val, <<>>)

\* String::from_utf8(vec).map_err(|err| Error::NotValidUTF8(err.utf8_error()));
\* a String is kept as its UTF-8 bytes
String_from_utf8(vec) == IF is_utf8(vec) THEN Ok(vec) ELSE NotValidUTF8

\* mutant: the bytes are returned without the UTF-8 validation
Readable_read_String_unvalidated(s) == Readable_read_Vec("u8", s)

\* impl Readable for String: let vec: Vec<u8> = s.read()?; String::from_utf8(vec)
Readable_read_String(s) ==
    LET vec == Readable_read_Vec("u8", s)
    IN  IF ~IsOk(vec.ret) THEN vec
        ELSE Out(vec.self, String_from_utf8(vec.ret.val))

\* mutant: the loop stops in front of the terminator, which stays unread
RECURSIVE CString_read_loop_before_nul(_, _)
CString_read_loop_before_nul(s, result) ==
    LET b == Readable_read_number("u8", s)
    IN  IF ~IsOk(b.ret) THEN b
        ELSE IF b.ret.val = 0 THEN Out(s, Ok(Append(result, 0)))
        ELSE CString_read_loop_before_nul(b.self, Append(result, b.ret.val))

\* loop { let b: u8 = s.read()?; result.push(b); if b == b'\0' { break; } }
RECURSIVE CString_read_loop(_, _)
CString_read_loop(s, result) ==
    LET b == Readable_read_number("u8", s)
    IN  IF ~IsOk(b.ret) THEN b
        ELSE IF b.ret.val = 0 THEN Out(b.self, Ok(Append(result, 0)))
        ELSE CString_read_loop(b.self, Append(result, b.ret.val))

\* CString::from_vec_with_nul(v).map_err(|err| Error::Custom(Box::new(err))):
\* the one 0x00 of v must be its last byte; a CString is kept as its bytes
\* without the terminator
CString_from_vec_with_nul(v) ==
    IF {i \in 1..Len(v) : v[i] = 0} = {Len(v)}
    THEN Ok(SubSeq(v, 1, Len(v) - 1))
    ELSE Custom

\* impl Readable for CString
Readable_read_CString(s) ==
    LET result == CString_read_loop(s, <<>>)
    IN  IF ~IsOk(result.ret) THEN result
        ELSE Out(result.self, CString_from_vec_with_nul(result.ret.val))

\* Readable for [T; N], up to its loop: `data` is N uninitialized slots
\* (<<>> is a slot that holds no value), the guard is armed with count 0.
\* `start` is the position at the call; `constructed` and `destroyed` count,
\* for each slot, the values constructed into it and the destructor calls on
\* it, as an instrumented element type would.
array_read_begin(T, N, s) ==
    [pc |-> "loop", T |-> T, N |-> N, start |-> s.pos, i |-> 0,
     initialized_count |-> 0,
     guard |-> [initialized_count |-> 0, forgotten |-> FALSE],
     data |-> [j \in 1..N |-> <<>>],
     constructed |-> [j \in 1..N |-> 0],
     destroyed |-> [j \in 1..N |-> 0],
     k |-> 0, err |-> Unit]

\* mutant: the guard is not told about the element just written
array_read_ok_guard_stale(f, value) ==
    [f EXCEPT !.data[f.i + 1] = <<value>>,
              !.constructed[f.i + 1] = @ + 1,
              !.initialized_count = @ + 1,
              !.i = @ + 1]

\* the arm Ok(value): write it to slot i, count it, tell the guard
array_read_ok(f, value) ==
    [f EXCEPT !.data[f.i + 1] = <<value>>,
              !.constructed[f.i + 1] = @ + 1,
              !.initialized_count = @ + 1,
              !.guard.initialized_count = f.initialized_count + 1,
              !.i = @ + 1]

\* the arm Err(e): return Err(e), which drops the armed guard
array_read_err(f, e) ==
    [f EXCEPT !.pc = "guard_drop", !.err = e, !.k = f.guard.initialized_count]

\* CleanupGuard::drop, one turn of `for i in (0..initialized_count).rev()`:
\* drop_in_place of slot k - 1 (slot k counting from 1)
CleanupGuard_drop_step(f) ==
    [f EXCEPT !.destroyed[f.k] = @ + 1, !.data[f.k] = <<>>, !.k = @ - 1]

\* core::mem::forget(guard); Ok(data.assume_init())
array_read_finish(f) ==
    [f EXCEPT !.pc = "returned", !.guard.forgotten = TRUE]

\* the array handed to the caller by assume_init
array_assume_init(f) == [j \in 1..f.N |-> f.data[j][1]]

----------------------------------------------------------------------------
(* ByteWriter (writer/mod.rs) *)

ByteWriter_new(data) == [data |-> data, pos |-> 0, endian |-> "Native"]

ByteWriter_with_endian(data, endian) == [data |-> data, pos |-> 0, endian |-> endian]

ByteWriter_len(self) == Len(self.data)

ByteWriter_position(self) == self.pos

ByteWriter_rest_len(self) == ByteWriter_len(self) - ByteWriter_position(self)

ByteWriter_as_slice(self) == self.data

ByteWriter_set_endian(self, endian) == Out([self EXCEPT !.endian = endian], Ok(Unit))

\* mutant: the end of the buffer is refused (>= instead of >)
ByteWriter_set_position_end_refused(self, pos) ==
    IF pos >= ByteWriter_len(self)
    THEN Out(self, OutOfBounds(self.pos, pos, ByteWriter_len(self)))
    ELSE Out([self EXCEPT !.pos = pos], Ok(Unit))

ByteWriter_set_position(self, pos) ==
    IF pos > ByteWriter_len(self)
    THEN Out(self, OutOfBounds(self.pos, pos, ByteWriter_len(self)))
    ELSE Out([self EXCEPT !.pos = pos], Ok(Unit))

ByteWriter_skip(self, count) ==
    LET sum == checked_add(self.pos, count)
    IN  IF IsOk(sum) /\ sum.val <= ByteWriter_len(self)
        THEN Out([self EXCEPT !.pos = sum.val], Ok(Unit))
        ELSE Out(self, OutOfBounds(self.pos, count, ByteWriter_len(self)))

ByteWriter_skip_force(self, count) ==
    Out([self EXCEPT !.pos = Min(saturating_add(self.pos, count), ByteWriter_len(self))],
        Ok(Unit))

ByteWriter_rewind(self, count) ==
    LET diff == checked_sub(self.pos, count)
    IN  IF IsOk(diff)
        THEN Out([self EXCEPT !.pos = diff.val], Ok(Unit))
        ELSE Out(self, OutOfBounds(self.pos, count, ByteWriter_len(self)))

ByteWriter_rewind_force(self, count) ==
    Out([self EXCEPT !.pos = saturating_sub(self.pos, count)], Ok(Unit))

\* mutant: End is resolved from the current position instead of from len()
ByteWriter_seek_target_end_from_pos(self, from, overflow_checks) ==
    LET len == ByteWriter_len(self)
        neg == isize_as_usize(wrapping_neg(from.n))
    IN  CASE from.tag = "Start" -> Ok(from.n)
          [] from.tag = "End" /\ from.n > 0 ->
                OutOfBounds(self.pos, isize_as_usize(from.n), len)
          [] from.tag \in {"End", "Current"} /\ from.n <= 0 ->
                IF from.n = ISIZE_MIN /\ overflow_checks THEN Panic
                ELSE IF IsOk(checked_sub(self.pos, neg)) THEN checked_sub(self.pos, neg)
                ELSE OutOfBounds(self.pos, neg, len)
          [] from.tag = "Current" /\ from.n > 0 ->
                IF IsOk(checked_add(self.pos, isize_as_usize(from.n)))
                THEN checked_add(self.pos, isize_as_usize(from.n))
                ELSE OutOfBounds(self.pos, isize_as_usize(from.n), len)

ByteWriter_seek_target(self, from, overflow_checks) ==
    LET len == ByteWriter_len(self)
        neg == isize_as_usize(wrapping_neg(from.n))
    IN  CASE from.tag = "Start" -> Ok(from.n)
          [] from.tag = "End" /\ from.n > 0 ->
                OutOfBounds(self.pos, isize_as_usize(from.n), len)
          [] from.tag = "End" /\ from.n <= 0 ->
                IF from.n = ISIZE_MIN /\ overflow_checks THEN Panic
                ELSE IF IsOk(checked_sub(len, neg)) THEN checked_sub(len, neg)
                ELSE OutOfBounds(self.pos, neg, len)
          [] from.tag = "Current" /\ from.n > 0 ->
                IF IsOk(checked_add(self.pos, isize_as_usize(from.n)))
                THEN checked_add(self.pos, isize_as_usize(from.n))
                ELSE OutOfBounds(self.pos, isize_as_usize(from.n), len)
          [] from.tag = "Current" /\ from.n <= 0 ->
                IF from.n = ISIZE_MIN /\ overflow_checks THEN Panic
                ELSE IF IsOk(checked_sub(self.pos, neg)) THEN checked_sub(self.pos, neg)
                ELSE OutOfBounds(self.pos, neg, len)

ByteWriter_seek(self, from, overflow_checks) ==
    LET new_pos == ByteWriter_seek_target(self, from, overflow_checks)
    IN  IF ~IsOk(new_pos) THEN Out(self, new_pos)
        ELSE LET set == ByteWriter_set_position(self, new_pos.val)
             IN  IF IsOk(set.ret) THEN Out(set.self, Ok(set.self.pos)) ELSE set

ByteWriter_reset(self) == Out([self EXCEPT !.pos = 0], Ok(Unit))

\* self.position() + size <= self.len(): the sum panics on overflow when
\* overflow checks are compiled in and wraps otherwise; the bool is
\* returned as Ok(bool)
ByteWriter_can_write(self, size, overflow_checks) ==
    IF add_overflows(ByteWriter_position(self), size) /\ overflow_checks
    THEN Out(self, Panic)
    ELSE Out(self, Ok(wrapping_add(ByteWriter_position(self), size) <= ByteWriter_len(self)))

ByteWriter_check_bounds(self, size) ==
    LET sum == checked_add(self.pos, size)
    IN  IF IsOk(sum) /\ sum.val <= ByteWriter_len(self)
        THEN Ok(Unit)
        ELSE InsufficientData(size, ByteWriter_len(self) - ByteWriter_position(self))

\* mutant: the destination range starts one byte early
copy_from_slice_early(data, pos, bytes) ==
    [i \in 1..Len(data) |->
        IF i >= pos /\ i < pos + Len(bytes) /\ i >= 1 THEN bytes[i - pos + 1] ELSE data[i]]

\* data[pos .. pos + size].copy_from_slice(bytes)
copy_from_slice(data, pos, bytes) ==
    [i \in 1..Len(data) |->
        IF i > pos /\ i <= pos + Len(bytes) THEN bytes[i - pos] ELSE data[i]]

ByteWriter_write_exact(self, bytes) ==
    LET size == Len(bytes)
    IN  IF IsOk(ByteWriter_check_bounds(self, size))
        THEN Out([self EXCEPT !.data = copy_from_slice(self.data, self.pos, bytes),
                              !.pos = self.pos + size],
                 Ok(Unit))
        ELSE Out(self, ByteWriter_check_bounds(self, size))

ByteWriter_write_bytes(self, bytes) == ByteWriter_write_exact(self, bytes)

\* mutant: the whole of buf is reported as written
ByteWriter_io_write_reporting_all(self, buf) ==
    LET to_write == Min(ByteWriter_rest_len(self), Len(buf))
    IN  Out([self EXCEPT !.data = copy_from_slice(self.data, self.pos,
                                                  SubSeq(buf, 1, to_write)),
                         !.pos = self.pos + to_write],
            Ok(Len(buf)))

\* impl Write for ByteWriter
ByteWriter_io_write(self, buf) ==
    IF ByteWriter_rest_len(self) = 0
    THEN Out(self, Ok(0))
    ELSE LET to_write == Min(ByteWriter_rest_len(self), Len(buf))
         IN  Out([self EXCEPT !.data = copy_from_slice(self.data, self.pos,
                                                       SubSeq(buf, 1, to_write)),
                              !.pos = self.pos + to_write],
                 Ok(to_write))

----------------------------------------------------------------------------
(* Writable (writer/writable.rs) *)

\* mutant: the Little and Big arms are exchanged
encode_number_arms_exchanged(T, endian, val) ==
    CASE endian = "Little" -> to_be_bytes(T, val)
      [] endian = "Big" -> to_le_bytes(T, val)
      [] endian = "Native" -> to_ne_bytes(T, val)

\* the endianness dispatch of impl_number
encode_number(T, endian, val) ==
    CASE endian = "Little" -> to_le_bytes(T, val)
      [] endian = "Big" -> to_be_bytes(T, val)
      [] endian = "Native" -> to_ne_bytes(T, val)

\* impl_number!: Writable::write for a numeric type
Writable_write_number(T, s, val) ==
    ByteWriter_write_exact(s, encode_number(T, s.endian, val))

\* impl Writable for bool
Writable_write_bool(s, val) ==
    IF val THEN ByteWriter_write_exact(s, <<1>>) ELSE ByteWriter_write_exact(s, <<0>>)

\* ByteWriter::write::<W>(&val)
ByteWriter_write(self, W, val) ==
    IF W = "bool" THEN Writable_write_bool(self, val) ELSE Writable_write_number(W, self, val)

----------------------------------------------------------------------------
(* Writable for tuples, [T; N] and Vec<T> (writer/writable.rs) *)

\* mutant: a failed element write is ignored and the loop goes on
RECURSIVE write_items_ignoring_errors(_, _, _)
write_items_ignoring_errors(T, s, val) ==
    IF val = <<>> THEN Out(s, Ok(Unit))
    ELSE write_items_ignoring_errors(T, ByteWriter_write(s, T, Head(val)).self, Tail(val))

\* for item in val { s.write(item)?; } Ok(())
RECURSIVE write_items(_, _, _)
write_items(T, s, val) ==
    IF val = <<>> THEN Out(s, Ok(Unit))
    ELSE LET first == ByteWriter_write(s, T, Head(val))
         IN  IF ~IsOk(first.ret) THEN first
             ELSE write_items(T, first.self, Tail(val))

\* Writable for [T; N]
Writable_write_array(T, s, val) == write_items(T, s, val)

\* impl_tupple!: s.write(&val.0)?; s.write(&val.1)?; ... Ok(())
RECURSIVE Writable_write_tuple(_, _, _)
Writable_write_tuple(Types, s, val) ==
    IF Types = <<>> THEN Out(s, Ok(Unit))
    ELSE LET first == ByteWriter_write(s, Head(Types), Head(val))
         IN  IF ~IsOk(first.ret) THEN first
             ELSE Writable_write_tuple(Tail(Types), first.self, Tail(val))

\* Writable for Vec<T>: NotValid if val.len() > u32::MAX, else the count as
\* u32 and the elements
Writable_write_Vec(T, s, val) ==
    IF Len(val) \div 65536 >= 65536
    THEN Out(s, NotValid)
    ELSE LET count == Writable_write_number("u32", s, Len(val))
         IN  IF ~IsOk(count.ret) THEN count
             ELSE write_items(T, count.self, val)

\* impl Writable for String: NotValid if val.len() > u32::MAX, else the length
\* as u32 and the bytes
Writable_write_String(s, val) ==
    IF Len(val) \div 65536 >= 65536
    THEN Out(s, NotValid)
    ELSE LET count == Writable_write_number("u32", s, Len(val))
         IN  IF ~IsOk(count.ret) THEN count
             ELSE ByteWriter_write_exact(count.self, val)

\* CString::as_bytes_with_nul()
as_bytes_with_nul(val) == Append(val, 0)

\* impl Writable for CString: NotValid if val.count_bytes() > u32::MAX - 1,
\* else the bytes and the terminator
Writable_write_CString(s, val) ==
    IF (Len(val) + 1) \div 65536 >= 65536
    THEN Out(s, NotValid)
    ELSE ByteWriter_write_exact(s, as_bytes_with_nul(val))

----------------------------------------------------------------------------
(* The inputs of the model *)

\* counts, sizes and positions passed to the cursor: the small ones and the
\* ones next to usize::MAX
MaxCount == 8

Counts == {n \in Usize : n <= MaxCount \/ n >= USIZE_MAX - 1}

\* signed offsets passed to seek: the small ones and the ones next to the ends
Offsets == {n \in Isize : (n >= 0 - MaxCount /\ n <= MaxCount)
                          \/ n <= ISIZE_MIN + 1 \/ n >= ISIZE_MAX - 1}

SeekInputs ==
    [tag : {"Start"}, n : Counts] \cup [tag : {"End", "Current"}, n : Offsets]

\* buffers a ByteReader is constructed over
ReaderBuffers ==
    { <<>>,
      <<1, 2>>,
      <<18, 52, 86, 120>>,
      <<0, 1, 255, 2>>,
      <<65, 195, 169, 66>>,
      <<255, 128, 65>>,
      <<127, 0, 1, 65, 66, 2, 3>>,
      <<0, 1, 2, 3, 4, 5, 6, 7, 8, 9, 10, 11, 12, 13, 14, 15>> }

\* buffers a ByteWriter is constructed over
WriterBuffers ==
    { <<>>, <<0>>, <<0, 0>>, <<0, 0, 0, 0>> }

\* byte strings passed to write_bytes and io Write::write
WriteBytes ==
    { <<>>, <<1>>, <<1, 0>>, <<1, 0, 1, 0, 1>> }

\* values passed to write::<T> by a writer that is written to without end:
\* their bytes are 0x00 and 0x01, each at a place that tells the byte order
WriteValues(T) ==
    CASE T = "u8" -> {1}
      [] T = "i8" -> {0}
      [] T = "u16" -> {1}
      [] T = "i16" -> {256}
      [] T = "u32" -> {16777216}
      [] T = "i32" -> {65536}
      [] T = "bool" -> BOOLEAN

CodecTypes == NumTypes \cup {"bool"}

NoCall == [op |-> "none", arg |-> Unit, res |-> Ok(Unit)]

----------------------------------------------------------------------------
(* Actions: one per public operation of ByteReader.  The caller makes a    *)
(* call when it holds no pending result, and drops the result afterwards.  *)

ReaderCall(op, arg, out) ==
    /\ kind = "reader"
    /\ rret = NoCall
    /\ reader' = out.self
    /\ rret' = [op |-> op, arg |-> arg, res |-> out.ret]
    /\ UNCHANGED <<kind, writer, wret, target_endian, frame>>

R_set_endian(e) == ReaderCall("set_endian", e, ByteReader_set_endian(reader, e))

R_set_position(p) == ReaderCall("set_position", p, ByteReader_set_position(reader, p))

R_skip(n) == ReaderCall("skip", n, ByteReader_skip(reader, n))

R_skip_force(n) == ReaderCall("skip_force", n, ByteReader_skip_force(reader, n))

R_align_up(a, c) == ReaderCall("align_up", a, ByteReader_align_up(reader, a, c))

R_align_up_force(a, c) ==
    ReaderCall("align_up_force", a, ByteReader_align_up_force(reader, a, c))

R_align_up_dynamic(a, c) ==
    ReaderCall("align_up_dynamic", a, ByteReader_align_up_dynamic(reader, a, c))

R_rewind(n) == ReaderCall("rewind", n, ByteReader_rewind(reader, n))

R_rewind_force(n) == ReaderCall("rewind_force", n, ByteReader_rewind_force(reader, n))

R_seek(from, c) == ReaderCall("seek", from, ByteReader_seek(reader, from, c))

R_reset == ReaderCall("reset", Unit, ByteReader_reset(reader))

R_peek(T) == ReaderCall("peek", T, ByteReader_peek(reader, T))

R_read(T) == ReaderCall("read", T, ByteReader_read(reader, T))

R_peek_bytes(n) == ReaderCall("peek_bytes", n, ByteReader_peek_bytes(reader, n))

R_read_bytes(n) == ReaderCall("read_bytes", n, ByteReader_read_bytes(reader, n))

R_read_vec(n) == ReaderCall("read_vec", n, ByteReader_read_vec(reader, n))

R_peek_ascii(n) == ReaderCall("peek_ascii", n, ByteReader_peek_ascii(reader, n))

R_read_ascii(n) == ReaderCall("read_ascii", n, ByteReader_read_ascii(reader, n))

R_io_read(n) == ReaderCall("io_read", n, ByteReader_io_read(reader, n))

\* the caller drops the Result of the last ByteReader call
R_drop ==
    /\ kind = "reader"
    /\ rret # NoCall
    /\ rret' = NoCall
    /\ UNCHANGED <<kind, reader, writer, wret, target_endian, frame>>

----------------------------------------------------------------------------
(* Actions: one per public operation of ByteWriter *)

WriterCall(op, arg, out) ==
    /\ kind = "writer"
    /\ wret = NoCall
    /\ writer' = out.self
    /\ wret' = [op |-> op, arg |-> arg, res |-> out.ret]
    /\ UNCHANGED <<kind, reader, rret, target_endian, frame>>

W_set_endian(e) == WriterCall("set_endian", e, ByteWriter_set_endian(writer, e))

W_set_position(p) == WriterCall("set_position", p, ByteWriter_set_position(writer, p))

W_skip(n) == WriterCall("skip", n, ByteWriter_skip(writer, n))

W_skip_force(n) == WriterCall("skip_force", n, ByteWriter_skip_force(writer, n))

W_rewind(n) == WriterCall("rewind", n, ByteWriter_rewind(writer, n))

W_rewind_force(n) == WriterCall("rewind_force", n, ByteWriter_rewind_force(writer, n))

W_seek(from, c) == WriterCall("seek", from, ByteWriter_seek(writer, from, c))

W_reset == WriterCall("reset", Unit, ByteWriter_reset(writer))

W_write(T, v) == WriterCall("write", [T |-> T, val |-> v], ByteWriter_write(writer, T, v))

W_write_bytes(b) == WriterCall("write_bytes", b, ByteWriter_write_bytes(writer, b))

W_io_write(b) == WriterCall("io_write", b, ByteWriter_io_write(writer, b))

W_can_write(n, c) == WriterCall("can_write", n, ByteWriter_can_write(writer, n, c))

\* the caller drops the Result of the last ByteWriter call
W_drop ==
    /\ kind = "writer"
    /\ wret # NoCall
    /\ wret' = NoCall
    /\ UNCHANGED <<kind, reader, writer, rret, target_endian, frame>>

----------------------------------------------------------------------------
(* The program holds one cursor: a reader or a writer over a fresh buffer *)

Init ==
    /\ kind \in {"reader", "writer"}
    /\ target_endian \in {"Little", "Big"}
    /\ rret = NoCall
    /\ wret = NoCall
    /\ frame = NoFrame
    /\ IF kind = "reader"
       THEN /\ reader \in {ByteReader_new(d) : d \in ReaderBuffers}
                          \cup {ByteReader_with_endian(d, e) : d \in ReaderBuffers, e \in Endian}
            /\ writer = ByteWriter_new(<<>>)
       ELSE /\ writer \in {ByteWriter_new(d) : d \in WriterBuffers}
                          \cup {ByteWriter_with_endian(d, e) : d \in WriterBuffers, e \in Endian}
            /\ reader = ByteReader_new(<<>>)

Next ==
    \/ \E e \in Endian : R_set_endian(e)
    \/ \E p \in Counts : R_set_position(p)
    \/ \E n \in Counts : R_skip(n)
    \/ \E n \in Counts : R_skip_force(n)
    \/ \E a \in PowersOfTwo, c \in BOOLEAN : R_align_up(a, c)
    \/ \E a \in PowersOfTwo, c \in BOOLEAN : R_align_up_force(a, c)
    \/ \E a \in Counts \cup PowersOfTwo, c \in BOOLEAN : R_align_up_dynamic(a, c)
    \/ \E n \in Counts : R_rewind(n)
    \/ \E n \in Counts : R_rewind_force(n)
    \/ \E from \in SeekInputs, c \in BOOLEAN : R_seek(from, c)
    \/ R_reset
    \/ \E T \in CodecTypes : R_peek(T)
    \/ \E T \in CodecTypes : R_read(T)
    \/ \E n \in Counts : R_peek_bytes(n)
    \/ \E n \in Counts : R_read_bytes(n)
    \/ \E n \in Counts : R_read_vec(n)
    \/ \E n \in Counts : R_peek_ascii(n)
    \/ \E n \in Counts : R_read_ascii(n)
    \/ \E n \in Counts : R_io_read(n)
    \/ R_drop
    \/ \E e \in Endian : W_set_endian(e)
    \/ \E p \in Counts : W_set_position(p)
    \/ \E n \in Counts : W_skip(n)
    \/ \E n \in Counts : W_skip_force(n)
    \/ \E n \in Counts : W_rewind(n)
    \/ \E n \in Counts : W_rewind_force(n)
    \/ \E from \in SeekInputs, c \in BOOLEAN : W_seek(from, c)
    \/ W_reset
    \/ \E T \in CodecTypes : \E v \in WriteValues(T) : W_write(T, v)
    \/ \E b \in WriteBytes : W_write_bytes(b)
    \/ \E b \in WriteBytes : W_io_write(b)
    \/ \E n \in Counts, c \in BOOLEAN : W_can_write(n, c)
    \/ W_drop

Spec == Init /\ [][Next]_vars

----------------------------------------------------------------------------
(* Write, then read back: a writer over a zeroed buffer writes one value,   *)
(* the buffer is then lent to a ByteReader (as tests/collections.rs does    *)
(* with ByteReader::new(&buffer[..])) and read.  The writer is not used     *)
(* again, so `writer` and `wret` keep what was written and where.           *)

RoundTripBuffers == { <<0, 0>>, <<0, 0, 0, 0>> }

\* values written in a round trip: the ends of each type's range, values
\* next to a byte boundary, 0x1234 and 0x12345678 (u32: 0, 1, 0x12345678 and
\* 0x7FFFFF7F, which stay below 2^31 in either byte order)
RoundTripValues(T) ==
    CASE T = "u8" -> {0, 1, 127, 128, 255}
      [] T = "i8" -> {0 - 128, 0 - 1, 0, 1, 127}
      [] T = "u16" -> {0, 255, 256, 4660, 32767, 32768, 65535}
      [] T = "i16" -> {0 - 32768, 0 - 2, 0 - 1, 0, 4660, 32767}
      [] T = "u32" -> {0, 1, 305419896, 2147483519}
      [] T = "i32" -> {(0 - 2147483647) - 1, 0 - 2, 0 - 1, 0, 305419896, 2147483647}
      [] T = "bool" -> BOOLEAN

Written == wret.op = "write" /\ IsOk(wret.res)

\* the caller drops a Result, but keeps the record of a successful write
RT_drop == ~Written /\ W_drop

\* the value is read back as the type it was written as
RT_read == Written /\ R_read(wret.arg.T)

\* let mut reader = ByteReader::with_endian(writer.as_slice(), e)
RT_borrow(e) ==
    /\ kind = "writer"
    /\ Written
    /\ kind' = "reader"
    /\ reader' = ByteReader_with_endian(ByteWriter_as_slice(writer), e)
    /\ UNCHANGED <<writer, rret, wret, target_endian, frame>>

InitRoundTrip ==
    /\ kind = "writer"
    /\ target_endian \in {"Little", "Big"}
    /\ rret = NoCall
    /\ wret = NoCall
    /\ frame = NoFrame
    /\ writer \in {ByteWriter_new(d) : d \in RoundTripBuffers}
                  \cup {ByteWriter_with_endian(d, e) : d \in RoundTripBuffers, e \in Endian}
    /\ reader = ByteReader_new(<<>>)

NextRoundTrip ==
    \/ \E p \in Counts : W_set_position(p)
    \/ \E T \in CodecTypes : \E v \in RoundTripValues(T) : W_write(T, v)
    \/ RT_drop
    \/ \E e \in Endian : RT_borrow(e)
    \/ \E p \in Counts : R_set_position(p)
    \/ RT_read
    \/ R_drop

SpecRoundTrip == InitRoundTrip /\ [][NextRoundTrip]_vars

----------------------------------------------------------------------------
(* Composite codecs: tuples, [T; N] and Vec<T> are decoded from buffers     *)
(* that hold a failing element, and encoded into zeroed buffers that are    *)
(* then lent to a ByteReader.  The decode of [T; N] is followed step by     *)
(* step in `frame`; the other codecs are one call each.                     *)

MaxArrayLen == 3

TupleTypes ==
    { <<"u8">>, <<"u8", "bool">>, <<"bool", "u16", "u8">>, <<"u16", "i16">> }

ArrayElemTypes == {"u8", "bool", "u16"}

VecElemTypes == {"u8", "bool", "u16", "u32"}

\* every byte is below 0x80, so that any four of them are a u32 below 2^31
CompositeReaderBuffers ==
    { <<>>,
      <<5, 7>>,
      <<0, 1, 2, 1>>,
      <<2, 0, 0, 0, 1, 2, 3, 4>>,
      <<0, 0, 0, 3, 1, 0, 2>> }

CompositeWriterBuffers ==
    { <<>>,
      <<0, 0, 0>>,
      <<0, 0, 0, 0, 0, 0>>,
      <<0, 0, 0, 0, 0, 0, 0, 0, 0, 0, 0, 0, 0, 0, 0, 0, 0, 0, 0, 0, 0, 0, 0, 0>> }

TupleValues(Types) ==
    CASE Types = <<"u8">> -> { <<7>> }
      [] Types = <<"u8", "bool">> -> { <<7, TRUE>>, <<9, FALSE>> }
      [] Types = <<"bool", "u16", "u8">> -> { <<TRUE, 258, 3>> }
      [] Types = <<"u16", "i16">> -> { <<258, 772>> }

ArrayValues(T) ==
    CASE T = "u8" -> { <<>>, <<1, 2, 3>> }
      [] T = "bool" -> { <<TRUE, FALSE>> }
      [] T = "u16" -> { <<258, 3>> }

VecValues(T) ==
    CASE T = "u8" -> { <<>>, <<1, 2, 3>> }
      [] T = "bool" -> { <<TRUE, FALSE, TRUE>> }
      [] T = "u16" -> { <<258>> }
      [] T = "u32" -> { <<1, 2, 3, 4, 5>> }

\* no [T; N] decode is in progress: the caller is between two calls
Idle == frame = NoFrame

R_read_tuple(Types) ==
    ReaderCall("read_tuple", Types, Readable_read_tuple(Types, reader))

R_read_Vec(T) == ReaderCall("read_Vec", T, Readable_read_Vec(T, reader))

\* reader.read::<[T; N]>() is called
A_call(T, N) ==
    /\ kind = "reader"
    /\ rret = NoCall
    /\ Idle
    /\ frame' = array_read_begin(T, N, reader)
    /\ UNCHANGED <<kind, reader, writer, rret, wret, target_endian>>

\* one turn of `for i in 0..N { match s.read() { ... } }`
A_iter ==
    /\ frame.pc = "loop"
    /\ frame.i < frame.N
    /\ LET got == ByteReader_read(reader, frame.T)
       IN  /\ reader' = got.self
           /\ frame' = IF IsOk(got.ret)
                       THEN array_read_ok(frame, got.ret.val)
                       ELSE array_read_err(frame, got.ret)
    /\ UNCHANGED <<kind, writer, rret, wret, target_endian>>

\* one turn of the loop of CleanupGuard::drop
A_guard_drop ==
    /\ frame.pc = "guard_drop"
    /\ frame.k > 0
    /\ frame' = CleanupGuard_drop_step(frame)
    /\ UNCHANGED <<kind, reader, writer, rret, wret, target_endian>>

\* the guard is dropped; Err(e) reaches the caller
A_return_err ==
    /\ frame.pc = "guard_drop"
    /\ frame.k = 0
    /\ frame' = [frame EXCEPT !.pc = "returned"]
    /\ rret' = [op |-> "read_array", arg |-> [T |-> frame.T, N |-> frame.N],
                res |-> frame.err]
    /\ UNCHANGED <<kind, reader, writer, wret, target_endian>>

\* the loop is over: the guard is forgotten, the array reaches the caller
A_return_ok ==
    /\ frame.pc = "loop"
    /\ frame.i = frame.N
    /\ frame' = array_read_finish(frame)
    /\ rret' = [op |-> "read_array", arg |-> [T |-> frame.T, N |-> frame.N],
                res |-> Ok(array_assume_init(frame))]
    /\ UNCHANGED <<kind, reader, writer, wret, target_endian>>

\* the caller drops the Result of the [T; N] decode
A_drop ==
    /\ frame.pc = "returned"
    /\ frame' = NoFrame
    /\ rret' = NoCall
    /\ UNCHANGED <<kind, reader, writer, wret, target_endian>>

W_write_tuple(Types, v) ==
    WriterCall("write_tuple", [T |-> Types, val |-> v],
               Writable_write_tuple(Types, writer, v))

W_write_array(T, v) ==
    WriterCall("write_array", [T |-> T, val |-> v], Writable_write_array(T, writer, v))

W_write_Vec(T, v) ==
    WriterCall("write_Vec", [T |-> T, val |-> v], Writable_write_Vec(T, writer, v))

CompositeWritten ==
    wret.op \in {"write_tuple", "write_array", "write_Vec"} /\ IsOk(wret.res)

\* the caller drops the Result of set_position; the composite write that
\* follows is the one write of the run, and its record is kept
CW_drop == wret.op = "set_position" /\ W_drop

\* let mut reader = ByteReader::with_endian(writer.as_slice(), e)
C_borrow(e) ==
    /\ kind = "writer"
    /\ CompositeWritten
    /\ kind' = "reader"
    /\ reader' = ByteReader_with_endian(ByteWriter_as_slice(writer), e)
    /\ UNCHANGED <<writer, rret, wret, target_endian, frame>>

InitComposite ==
    /\ kind \in {"reader", "writer"}
    /\ target_endian \in {"Little", "Big"}
    /\ rret = NoCall
    /\ wret = NoCall
    /\ frame = NoFrame
    /\ IF kind = "reader"
       THEN /\ reader \in {ByteReader_with_endian(d, e) :
                              d \in CompositeReaderBuffers, e \in Endian}
            /\ writer = ByteWriter_new(<<>>)
       ELSE /\ writer \in {ByteWriter_with_endian(d, e) :
                              d \in CompositeWriterBuffers, e \in Endian}
            /\ reader = ByteReader_new(<<>>)

\* the size of the encoding of the value that was written
RECURSIVE SizeOfAll(_)
SizeOfAll(Types) ==
    IF Types = <<>> THEN 0 ELSE size_of(Head(Types)) + SizeOfAll(Tail(Types))

EncodedSize ==
    CASE wret.op = "write_tuple" -> SizeOfAll(wret.arg.T)
      [] wret.op = "write_array" -> Len(wret.arg.val) * size_of(wret.arg.T)
      [] wret.op = "write_Vec" -> 4 + Len(wret.arg.val) * size_of(wret.arg.T)

\* a reader over its own buffer, between two calls
Fresh == wret = NoCall /\ Idle

\* a reader over the written buffer, between two calls
Borrowed == kind = "reader" /\ CompositeWritten /\ Idle

\* the reader is moved to where the write began
RB_seek == Borrowed /\ R_set_position(ByteWriter_position(writer) - EncodedSize)

\* the value is read back as the type it was written as
RB_read_tuple == Borrowed /\ wret.op = "write_tuple" /\ R_read_tuple(wret.arg.T)

RB_read_array ==
    Borrowed /\ wret.op = "write_array" /\ A_call(wret.arg.T, Len(wret.arg.val))

RB_read_Vec == Borrowed /\ wret.op = "write_Vec" /\ R_read_Vec(wret.arg.T)

NextComposite ==
    \/ \E p \in Counts : Fresh /\ R_set_position(p)
    \/ \E Types \in TupleTypes : Fresh /\ R_read_tuple(Types)
    \/ \E T \in VecElemTypes : Fresh /\ R_read_Vec(T)
    \/ \E T \in ArrayElemTypes, N \in 0..MaxArrayLen : Fresh /\ A_call(T, N)
    \/ A_iter
    \/ A_guard_drop
    \/ A_return_err
    \/ A_return_ok
    \/ A_drop
    \/ Idle /\ R_drop
    \/ \E p \in Counts : W_set_position(p)
    \/ \E Types \in TupleTypes : \E v \in TupleValues(Types) : W_write_tuple(Types, v)
    \/ \E T \in ArrayElemTypes : \E v \in ArrayValues(T) : W_write_array(T, v)
    \/ \E T \in VecElemTypes : \E v \in VecValues(T) : W_write_Vec(T, v)
    \/ CW_drop
    \/ \E e \in Endian : C_borrow(e)
    \/ RB_seek
    \/ RB_read_tuple
    \/ RB_read_array
    \/ RB_read_Vec

SpecComposite == InitComposite /\ [][NextComposite]_vars

----------------------------------------------------------------------------
(* Text codecs: a String or a CString is decoded from buffers that hold     *)
(* well-formed, ill-formed and truncated text, and Strings or CStrings are  *)
(* written back to back into a zeroed buffer that is then lent to a         *)
(* ByteReader, as tests/collections.rs does.  `wret.arg` is the caller's    *)
(* list of the values written so far.                                       *)

\* buffers a String is decoded from, front to back: "é" with a little-endian
\* count, 0xC3 0x28 and a lone 0x80 with a big-endian count, "A" and "" back
\* to back, a count of 3 over two bytes, a count of 0, and "€"
StringReaderBuffers ==
    { <<>>,
      <<2, 0, 0, 0, 195, 169>>,
      <<0, 0, 0, 2, 195, 40>>,
      <<1, 0, 0, 0, 65, 0, 0, 0, 0>>,
      <<0, 0, 0, 3, 65, 66>>,
      <<0, 0, 0, 0, 255>>,
      <<3, 0, 0, 0, 226, 130, 172>>,
      <<0, 0, 0, 1, 128>> }

\* buffers a CString is decoded from, front to back
CStringReaderBuffers ==
    { <<>>,
      <<0>>,
      <<72, 105, 0>>,
      <<72, 105>>,
      <<65, 0, 255, 254, 0, 0, 66>> }

TextWriterBuffers ==
    { <<>>,
      <<0, 0, 0, 0, 0>>,
      <<0, 0, 0, 0, 0, 0, 0, 0, 0, 0, 0, 0>> }

\* how many values a caller writes back to back
MaxTexts == 2

\* "", "A", "é" and "€!"
StringValues == { <<>>, <<65>>, <<195, 169>>, <<226, 130, 172, 33>> }

\* "", "Hi" and the bytes 0xFF 0xFE
CStringValues == { <<>>, <<72, 105>>, <<255, 254>> }

R_read_String == ReaderCall("read_String", Unit, Readable_read_String(reader))

R_read_CString == ReaderCall("read_CString", Unit, Readable_read_CString(reader))

\* writer.write(&v)?, again and again: the caller goes on after an Ok only
TextWriterCall(op, v, out) ==
    /\ kind = "writer"
    /\ wret = NoCall \/ (wret.op = op /\ IsOk(wret.res) /\ Len(wret.arg) < MaxTexts)
    /\ writer' = out.self
    /\ wret' = [op |-> op,
                arg |-> IF wret = NoCall THEN <<v>> ELSE Append(wret.arg, v),
                res |-> out.ret]
    /\ UNCHANGED <<kind, reader, rret, target_endian, frame>>

W_write_String(v) == TextWriterCall("write_String", v, Writable_write_String(writer, v))

W_write_CString(v) == TextWriterCall("write_CString", v, Writable_write_CString(writer, v))

TextWritten == wret.op \in {"write_String", "write_CString"} /\ IsOk(wret.res)

\* let mut reader = ByteReader::with_endian(writer.as_slice(), e)
T_borrow(e) ==
    /\ kind = "writer"
    /\ TextWritten
    /\ kind' = "reader"
    /\ reader' = ByteReader_with_endian(ByteWriter_as_slice(writer), e)
    /\ UNCHANGED <<writer, rret, wret, target_endian, frame>>

InitText ==
    /\ kind \in {"reader", "writer"}
    /\ target_endian \in {"Little", "Big"}
    /\ rret = NoCall
    /\ wret = NoCall
    /\ frame = NoFrame
    /\ IF kind = "reader"
       THEN /\ reader \in {ByteReader_with_endian(d, e) :
                              d \in StringReaderBuffers \cup CStringReaderBuffers,
                              e \in Endian}
            /\ writer = ByteWriter_new(<<>>)
       ELSE /\ writer \in {ByteWriter_with_endian(d, e) :
                              d \in TextWriterBuffers, e \in Endian}
            /\ reader = ByteReader_new(<<>>)

\* the size of the encoding of one String or CString
TextSize(op, v) == IF op = "write_String" THEN 4 + Len(v) ELSE Len(v) + 1

\* the size of the encodings of the first n values of vals
RECURSIVE TextSizes(_, _, _)
TextSizes(op, vals, n) ==
    IF n = 0 THEN 0 ELSE TextSizes(op, vals, n - 1) + TextSize(op, vals[n])

\* where the first of the written values begins
TextStart == ByteWriter_position(writer) - TextSizes(wret.op, wret.arg, Len(wret.arg))

\* a reader over the written buffer, between two calls
TextBorrowed == kind = "reader" /\ TextWritten

\* the reader is moved to where the first write began
TB_seek == TextBorrowed /\ R_set_position(TextStart)

\* the values are read back as the type they were written as, from where
\* the first write began or after it
TB_read_String ==
    TextBorrowed /\ wret.op = "write_String" /\ reader.pos >= TextStart /\ R_read_String

TB_read_CString ==
    TextBorrowed /\ wret.op = "write_CString" /\ reader.pos >= TextStart /\ R_read_CString

NextText ==
    \/ Fresh /\ reader.data \in StringReaderBuffers /\ R_read_String
    \/ Fresh /\ reader.data \in CStringReaderBuffers /\ R_read_CString
    \/ R_drop
    \/ \E p \in Counts : W_set_position(p)
    \/ CW_drop
    \/ \E v \in StringValues : W_write_String(v)
    \/ \E v \in CStringValues : W_write_CString(v)
    \/ \E e \in Endian : T_borrow(e)
    \/ TB_seek
    \/ TB_read_String
    \/ TB_read_CString

SpecText == InitText /\ [][NextText]_vars

----------------------------------------------------------------------------
(* A self-referential Peekable: TreeNode of tests/reader.rs (peek_tree),    *)
(* whose peek takes a u32 and a flag byte through the PeekStream and peeks  *)
(* a TreeNode again for each of the flag's two low bits that is set.  The   *)
(* call is followed statement by statement: `frame.stack` holds one         *)
(* activation of TreeNode::peek per nested call, the innermost last, and    *)
(* `frame.REC_DEPTH` is the test's static depth guard.  Option is <<>> for  *)
(* None and <<x>> for Some(x).                                              *)

\* static mut REC_DEPTH: u8 = 100
REC_DEPTH_INIT == 100

\* the data of peek_tree and buffers that are too short for a node, or whose
\* flag byte has none of its two low bits set
PeekTreeBuffers ==
    { <<>>,
      <<1, 2>>,
      <<4, 0, 0, 0>>,
      <<0, 0, 0, 2, 1, 0, 0, 8>>,
      <<1, 0, 0, 0, 3, 2, 0, 0, 0, 0, 3, 0, 0, 0, 0>> }

\* an activation of TreeNode::peek at its first statement
TreeNode_peek_entry ==
    [at |-> "enter", val |-> 0, flg |-> 0, l |-> <<>>, r |-> <<>>, res |-> Ok(Unit)]

\* the innermost activation
Top == frame.stack[Len(frame.stack)]

\* the stack with its innermost activation replaced
SetTop(act) == [frame.stack EXCEPT ![Len(frame.stack)] = act]

\* let _ts: TreeNode = reader.peek()...: ByteReader::peek hands a PeekStream
\* over the reader to TreeNode::peek
PT_call ==
    /\ kind = "reader"
    /\ rret = NoCall
    /\ Idle
    /\ frame' = [pc |-> "tree", start |-> reader.pos, REC_DEPTH |-> REC_DEPTH_INIT,
                  stack |-> <<TreeNode_peek_entry>>]
    /\ UNCHANGED <<kind, reader, writer, rret, wret, target_endian>>

\* if let Some(new) = REC_DEPTH.checked_sub(1) { REC_DEPTH = new } else { panic!(..) }
PT_enter ==
    /\ frame.pc = "tree"
    /\ Top.at = "enter"
    /\ IF IsOk(checked_sub(frame.REC_DEPTH, 1))
       THEN /\ frame' = [frame EXCEPT !.REC_DEPTH = checked_sub(frame.REC_DEPTH, 1).val,
                                      !.stack = SetTop([Top EXCEPT !.at = "val"])]
            /\ rret' = rret
       ELSE /\ frame' = [frame EXCEPT !.pc = "panicked"]
            /\ rret' = [op |-> "peek_tree", arg |-> Unit, res |-> Panic]
    /\ UNCHANGED <<kind, reader, writer, wret, target_endian>>

\* let val: u32 = s.peek()?;
PT_val ==
    /\ frame.pc = "tree"
    /\ Top.at = "val"
    /\ LET got == PeekStream_peek(reader, "u32")
       IN  /\ reader' = got.self
           /\ frame' = [frame EXCEPT !.stack =
                           SetTop(IF IsOk(got.ret)
                                  THEN [Top EXCEPT !.at = "flg", !.val = got.ret.val]
                                  ELSE [Top EXCEPT !.at = "ret", !.res = got.ret])]
    /\ UNCHANGED <<kind, writer, rret, wret, target_endian>>

\* let flg: u8 = s.peek()?;
PT_flg ==
    /\ frame.pc = "tree"
    /\ Top.at = "flg"
    /\ LET got == PeekStream_peek(reader, "u8")
       IN  /\ reader' = got.self
           /\ frame' = [frame EXCEPT !.stack =
                           SetTop(IF IsOk(got.ret)
                                  THEN [Top EXCEPT !.at = "left", !.flg = got.ret.val]
                                  ELSE [Top EXCEPT !.at = "ret", !.res = got.ret])]
    /\ UNCHANGED <<kind, writer, rret, wret, target_endian>>

\* let l = if flg & 0x01 != 0 { let left: TreeNode = s.peek()?; .. } else { None };
\* up to the nested call
PT_left ==
    /\ frame.pc = "tree"
    /\ Top.at = "left"
    /\ frame' = [frame EXCEPT !.stack =
                    IF BitAndN(Top.flg, 1, 8) # 0
                    THEN Append(SetTop([Top EXCEPT !.at = "left_wait"]), TreeNode_peek_entry)
                    ELSE SetTop([Top EXCEPT !.at = "right", !.l = <<>>])]
    /\ UNCHANGED <<kind, reader, writer, rret, wret, target_endian>>

\* let r = if flg & 0x02 != 0 { let right: TreeNode = s.peek()?; .. } else { None };
\* up to the nested call, or to Ok(Self { val, l, r })
PT_right ==
    /\ frame.pc = "tree"
    /\ Top.at = "right"
    /\ frame' = [frame EXCEPT !.stack =
                    IF BitAndN(Top.flg, 2, 8) # 0
                    THEN Append(SetTop([Top EXCEPT !.at = "right_wait"]), TreeNode_peek_entry)
                    ELSE SetTop([Top EXCEPT
                                    !.at = "ret",
                                    !.r = <<>>,
                                    !.res = Ok([val |-> Top.val, l |-> Top.l, r |-> <<>>])])]
    /\ UNCHANGED <<kind, reader, writer, rret, wret, target_endian>>

\* what the activation that waits for a nested peek does with its result:
\* `?` returns an Err, Some(Box::new(..)) keeps an Ok
TreeNode_peek_resume(parent, res) ==
    IF ~IsOk(res) THEN [parent EXCEPT !.at = "ret", !.res = res]
    ELSE IF parent.at = "left_wait" THEN [parent EXCEPT !.at = "right", !.l = <<res.val>>]
    ELSE [parent EXCEPT !.at = "ret",
                        !.r = <<res.val>>,
                        !.res = Ok([val |-> parent.val, l |-> parent.l, r |-> <<res.val>>])]

\* the innermost activation returns, to the activation that called it or to
\* the caller of reader.peek()
PT_return ==
    /\ frame.pc = "tree"
    /\ Top.at = "ret"
    /\ LET n == Len(frame.stack)
       IN  IF n = 1
           THEN /\ frame' = [frame EXCEPT !.pc = "returned", !.stack = <<>>]
                /\ rret' = [op |-> "peek_tree", arg |-> Unit, res |-> Top.res]
           ELSE /\ frame' = [frame EXCEPT !.stack =
                                Append(SubSeq(frame.stack, 1, n - 2),
                                       TreeNode_peek_resume(frame.stack[n - 1], Top.res))]
                /\ rret' = rret
    /\ UNCHANGED <<kind, reader, writer, wret, target_endian>>

InitPeekTree ==
    /\ kind = "reader"
    /\ target_endian \in {"Little", "Big"}
    /\ rret = NoCall
    /\ wret = NoCall
    /\ frame = NoFrame
    /\ reader \in {ByteReader_with_endian(d, e) : d \in PeekTreeBuffers, e \in Endian}
    /\ writer = ByteWriter_new(<<>>)

NextPeekTree ==
    \/ \E p \in Counts : Idle /\ R_set_position(p)
    \/ Idle /\ R_drop
    \/ PT_call
    \/ PT_enter
    \/ PT_val
    \/ PT_flg
    \/ PT_left
    \/ PT_right
    \/ PT_return

SpecPeekTree == InitPeekTree /\ [][NextPeekTree]_vars

----------------------------------------------------------------------------
(* Claims.  A step of a ByteReader call is a step from rret = NoCall to the *)
(* record of the call; the unprimed cursor is the cursor before the call,   *)
(* the primed one the cursor after it.                                      *)

ReaderCalled(ops) == rret = NoCall /\ rret' # NoCall /\ rret'.op \in ops

WriterCalled(ops) == wret = NoCall /\ wret' # NoCall /\ wret'.op \in ops

WithinBuffer(c) == 0 <= c.pos /\ c.pos <= Len(c.data)

\* C1: over a buffer of fixed length L, after every public operation of a
\* ByteReader or ByteWriter, successful or not, len() is still L and
\* 0 <= position() <= len().
C1_PositionWithinFixedLength ==
    [][ /\ Len(reader'.data) = Len(reader.data)
        /\ Len(writer'.data) = Len(writer.data)
        /\ WithinBuffer(reader')
        /\ WithinBuffer(writer') ]_vars

\* a failed call has left the reader inside a non-empty buffer, away from 0
C1_Witness ==
    /\ kind = "reader"
    /\ rret.op = "read_ascii"
    /\ IsErr(rret.res)
    /\ reader.pos > 0
    /\ reader.pos <= Len(reader.data)

\* the number of bytes a read or peek call asks for
Requested(ret) ==
    IF ret.op \in {"read", "peek"} THEN size_of(ret.arg) ELSE ret.arg

\* C2: read_exact(n) / peek_exact(n) (through read_bytes, read_vec,
\* peek_bytes) and every typed read or peek of an n-byte primitive, called
\* with n > len - position, fails with InsufficientData{requested: n,
\* available: len - position} and leaves the position unchanged.
C2_InsufficientData ==
    [][ (/\ ReaderCalled({"read", "peek", "read_bytes", "read_vec", "peek_bytes"})
         /\ Requested(rret') > Len(reader.data) - reader.pos)
        => (/\ rret'.res.tag = "InsufficientData"
            /\ rret'.res.requested = Requested(rret')
            /\ rret'.res.available = Len(reader.data) - reader.pos
            /\ reader'.pos = reader.pos) ]_vars

\* a 4-byte u32 read from a 2-byte buffer at position 0: requested 4, available 2
C2_Witness ==
    /\ rret.op = "read"
    /\ rret.arg = "u32"
    /\ rret.res.tag = "InsufficientData"
    /\ rret.res.requested = 4
    /\ rret.res.available = 2
    /\ reader.pos = 0
    /\ Len(reader.data) = 2

\* data[pos .. pos + n] of the source
Slice(data, pos, n) == [i \in 1..n |-> data[pos + i]]

\* C3: with n <= len - position, read_bytes / read_vec (read_exact) return
\* exactly data[position .. position + n] and advance the position by n;
\* peek_bytes (peek_exact) returns the same bytes and leaves the position.
C3_ExactBytes ==
    [][ (/\ ReaderCalled({"read_bytes", "read_vec", "peek_bytes"})
         /\ rret'.arg <= Len(reader.data) - reader.pos)
        => (/\ rret'.res.tag = "Ok"
            /\ rret'.res.val = Slice(reader.data, reader.pos, rret'.arg)
            /\ reader'.data = reader.data
            /\ reader'.endian = reader.endian
            /\ reader'.pos = IF rret'.op = "peek_bytes" THEN reader.pos
                             ELSE reader.pos + rret'.arg) ]_vars

\* read_bytes(2) in the middle of a buffer returned the two bytes before the
\* new position
C3_Witness ==
    /\ rret.op = "read_bytes"
    /\ rret.arg = 2
    /\ rret.res.tag = "Ok"
    /\ reader.pos = 3
    /\ rret.res.val = <<reader.data[2], reader.data[3]>>
    /\ reader.data[2] # reader.data[3]

C5_WriteExact ==
    [][ WriterCalled({"write_bytes"}) =>
        LET bytes == wret'.arg
            n == Len(bytes)
        IN  IF n <= Len(writer.data) - writer.pos
            THEN /\ wret'.res.tag = "Ok"
                 /\ Len(writer'.data) = Len(writer.data)
                 /\ \A i \in 1..Len(writer.data) :
                        writer'.data[i] = IF i > writer.pos /\ i <= writer.pos + n
                                          THEN bytes[i - writer.pos]
                                          ELSE writer.data[i]
                 /\ writer'.pos = writer.pos + n
                 /\ writer'.endian = writer.endian
            ELSE /\ wret'.res.tag = "InsufficientData"
                 /\ wret'.res.requested = n
                 /\ wret'.res.available = Len(writer.data) - writer.pos
                 /\ writer' = writer ]_vars

\* two bytes written into the middle of a buffer whose first byte was
\* written before and is still there
C5_Witness ==
    /\ wret.op = "write_bytes"
    /\ wret.arg = <<1, 0>>
    /\ wret.res.tag = "Ok"
    /\ writer.pos = 3
    /\ writer.data = <<1, 1, 0, 0>>

\* the byte of weight 256^k in the two's-complement pattern of v
ByteAt(v, k) == (v \div Pow(256, k)) % 256

\* C6: for every numeric type T, value v and endianness mode m, writing v
\* with a writer in mode m and reading T back from the written bytes with a
\* reader in mode m returns v, and both cursors advance by size_of::<T>().
C6_RoundTrip ==
    [][ /\ (WriterCalled({"write"}) /\ wret'.arg.T \in NumTypes /\ IsOk(wret'.res))
           => writer'.pos = writer.pos + size_of(wret'.arg.T)
        /\ (/\ ReaderCalled({"read"})
            /\ Written
            /\ wret.arg.T \in NumTypes
            /\ rret'.arg = wret.arg.T
            /\ reader.endian = writer.endian
            /\ reader.pos = writer.pos - size_of(wret.arg.T))
           => (/\ rret'.res.tag = "Ok"
               /\ rret'.res.val = wret.arg.val
               /\ reader'.pos = reader.pos + size_of(wret.arg.T)) ]_vars

\* a negative i32 written and read back in Native mode
C6_Witness ==
    /\ Written
    /\ wret.arg.T = "i32"
    /\ wret.arg.val = 0 - 2
    /\ writer.endian = "Native"
    /\ reader.endian = "Native"
    /\ rret.op = "read"
    /\ rret.res.tag = "Ok"
    /\ rret.res.val = 0 - 2
    /\ reader.pos = 4
    /\ writer.pos = 4

\* what read::<T>() returns from cursor c when its mode is e
ReadingIn(c, T, e) == ByteReader_read([c EXCEPT !.endian = e], T).ret

\* C7: in Big mode an integer is written most-significant byte first, in
\* Little mode least-significant byte first (0x12345678 as u32 is
\* [0x12,0x34,0x56,0x78] in Big and [0x78,0x56,0x34,0x12] in Little); the
\* value read from some bytes in Big mode is the byte-swap of the value read
\* from them in Little mode.
C7_ByteOrder ==
    [][ /\ (WriterCalled({"write"}) /\ wret'.arg.T \in NumTypes /\ IsOk(wret'.res))
           => LET n == size_of(wret'.arg.T)
                  v == wret'.arg.val
                  written == Slice(writer'.data, writer.pos, n)
              IN  /\ writer.endian = "Big"
                     => \A i \in 1..n : written[i] = ByteAt(v, n - i)
                  /\ writer.endian = "Little"
                     => \A i \in 1..n : written[i] = ByteAt(v, i - 1)
                  /\ (wret'.arg.T = "u32" /\ v = 305419896 /\ writer.endian = "Big")
                     => written = <<18, 52, 86, 120>>
                  /\ (wret'.arg.T = "u32" /\ v = 305419896 /\ writer.endian = "Little")
                     => written = <<120, 86, 52, 18>>
        /\ (ReaderCalled({"read"}) /\ rret'.arg \in NumTypes /\ IsOk(rret'.res)
            /\ reader.endian = "Big")
           => LET n == size_of(rret'.arg)
                  little == ReadingIn(reader, rret'.arg, "Little")
              IN  /\ IsOk(little)
                  /\ \A k \in 0..(n - 1) :
                        ByteAt(rret'.res.val, k) = ByteAt(little.val, n - 1 - k) ]_vars

\* 0x12345678 written as u32 in Big mode, then read back in Big mode
C7_Witness ==
    /\ Written
    /\ wret.arg.T = "u32"
    /\ wret.arg.val = 305419896
    /\ writer.endian = "Big"
    /\ writer.data = <<18, 52, 86, 120>>
    /\ rret.op = "read"
    /\ reader.endian = "Big"
    /\ rret.res.tag = "Ok"
    /\ rret.res.val = 305419896

\* C8: set_position(p) succeeds and makes position() = p iff p <= len();
\* otherwise it returns OutOfBounds{pos: the current position, requested: p,
\* len: len()} and leaves the position unchanged.
SetPositionContract(c, c2, ret) ==
    IF ret.arg <= Len(c.data)
    THEN ret.res.tag = "Ok" /\ c2 = [c EXCEPT !.pos = ret.arg]
    ELSE ret.res = OutOfBounds(c.pos, ret.arg, Len(c.data)) /\ c2 = c

C8_SetPosition ==
    [][ /\ ReaderCalled({"set_position"}) => SetPositionContract(reader, reader', rret')
        /\ WriterCalled({"set_position"}) => SetPositionContract(writer, writer', wret') ]_vars

\* set_position(len + 1) refused from a position in the middle of the buffer
C8_Witness ==
    /\ wret.op = "set_position"
    /\ wret.arg = Len(writer.data) + 1
    /\ wret.res.tag = "OutOfBounds"
    /\ wret.res.pos = 2
    /\ writer.pos = 2

\* C9: skip(n) succeeds iff position + n does not overflow and is <= len
\* (the position then grows by n); rewind(n) succeeds iff n <= position (the
\* position then shrinks by n); otherwise each returns OutOfBounds{pos:
\* position, requested: n, len} and leaves the position unchanged.
SkipContract(c, c2, ret) ==
    IF c.pos + ret.arg <= USIZE_MAX /\ c.pos + ret.arg <= Len(c.data)
    THEN ret.res.tag = "Ok" /\ c2 = [c EXCEPT !.pos = c.pos + ret.arg]
    ELSE ret.res = OutOfBounds(c.pos, ret.arg, Len(c.data)) /\ c2 = c

RewindContract(c, c2, ret) ==
    IF ret.arg <= c.pos
    THEN ret.res.tag = "Ok" /\ c2 = [c EXCEPT !.pos = c.pos - ret.arg]
    ELSE ret.res = OutOfBounds(c.pos, ret.arg, Len(c.data)) /\ c2 = c

RoundUp(p, a) == ((p + a - 1) \div a) * a

Max(a, b) == IF a >= b THEN a ELSE b

\* C10: skip_force(n), rewind_force(n) and align_up_force::<A>() never
\* fail: they set the position to min(position + n, len), to
\* max(position - n, 0) and to min(position rounded up to a multiple of A,
\* len).
C10_ForceVariants ==
    [][ /\ ReaderCalled({"skip_force"})
           => rret'.res.tag = "Ok"
              /\ reader' = [reader EXCEPT !.pos = Min(reader.pos + rret'.arg, Len(reader.data))]
        /\ WriterCalled({"skip_force"})
           => wret'.res.tag = "Ok"
              /\ writer' = [writer EXCEPT !.pos = Min(writer.pos + wret'.arg, Len(writer.data))]
        /\ ReaderCalled({"rewind_force"})
           => rret'.res.tag = "Ok"
              /\ reader' = [reader EXCEPT !.pos = Max(reader.pos - rret'.arg, 0)]
        /\ WriterCalled({"rewind_force"})
           => wret'.res.tag = "Ok"
              /\ writer' = [writer EXCEPT !.pos = Max(writer.pos - wret'.arg, 0)]
        /\ ReaderCalled({"align_up_force"})
           => rret'.res.tag = "Ok"
              /\ reader' = [reader EXCEPT
                               !.pos = Min(RoundUp(reader.pos, rret'.arg), Len(reader.data))]
      ]_vars

\* align_up_force::<8>() from position 5 of a 7-byte buffer clamps to 7
C10_Witness ==
    /\ rret.op = "align_up_force"
    /\ rret.arg = 8
    /\ Len(reader.data) = 7
    /\ reader.pos = 7
    /\ rret.res.tag = "Ok"

\* a is 2^k for some k that fits the machine word
IsPowerOfTwo(a) == \E k \in 0..(UsizeBits - 1) : a = Pow(2, k)

\* the one multiple of a in [p, p + a - 1]
SmallestMultipleFrom(p, a) == CHOOSE m \in p..(p + a - 1) : m % a = 0

\* C11: for a power-of-two A, align_up::<A>() sets the position to the
\* smallest multiple of A that is >= the current position when that multiple
\* is <= len (an aligned position stays put); when it exceeds len the call
\* fails with OutOfBounds and the position is unchanged.
C11_AlignUp ==
    [][ ReaderCalled({"align_up"}) /\ IsPowerOfTwo(rret'.arg)
        => LET target == SmallestMultipleFrom(reader.pos, rret'.arg)
           IN  IF target <= Len(reader.data)
               THEN /\ rret'.res.tag = "Ok"
                    /\ reader' = [reader EXCEPT !.pos = target]
                    /\ (reader.pos % rret'.arg = 0 => reader' = reader)
               ELSE /\ rret'.res.tag = "OutOfBounds"
                    /\ reader' = reader ]_vars

\* align_up::<8>() has moved a reader over 16 bytes to position 16
C11_Witness ==
    /\ rret.op = "align_up"
    /\ rret.arg = 8
    /\ rret.res.tag = "Ok"
    /\ Len(reader.data) = 16
    /\ reader.pos = 16

\* C12: align_up_dynamic(a) fails with NotValid, the position unchanged, iff
\* a is not a power of two (a = 0 included); for a power-of-two a its outcome
\* is that of align_up::<a>().
C12_AlignUpDynamic ==
    [][ ReaderCalled({"align_up_dynamic"})
        => IF IsPowerOfTwo(rret'.arg)
           THEN /\ rret'.res # NotValid
                /\ \A c \in BOOLEAN :
                      ByteReader_align_up(reader, rret'.arg, c) = Out(reader', rret'.res)
           ELSE /\ rret'.res = NotValid
                /\ reader' = reader ]_vars

\* align_up_dynamic(0) refused at position 5
C12_Witness ==
    /\ rret.op = "align_up_dynamic"
    /\ rret.arg = 0
    /\ rret.res = NotValid
    /\ reader.pos = 5

\* the offset a SeekFrom names, as an integer: Start(n) is n, End(n) is
\* len + n and Current(n) is position + n
SeekResolved(c, from) ==
    CASE from.tag = "Start" -> from.n
      [] from.tag = "End" -> Len(c.data) + from.n
      [] from.tag = "Current" -> c.pos + from.n

SeekContract(c, c2, ret) ==
    LET target == SeekResolved(c, ret.arg)
    IN  IF 0 <= target /\ target <= Len(c.data)
        THEN ret.res = Ok(target) /\ c2.pos = target
        ELSE ret.res.tag # "Ok"

\* C13: seek resolves Start(n) to n, End(-k) to len - k and Current(d) to
\* position + d; it succeeds exactly when that target lies in [0, len], and
\* then returns the target, which is position() afterwards.
C13_Seek ==
    [][ /\ ReaderCalled({"seek"}) => SeekContract(reader, reader', rret')
        /\ WriterCalled({"seek"}) => SeekContract(writer, writer', wret') ]_vars

\* seek(End(-1)) on a writer over 4 bytes returns 3
C13_Witness ==
    /\ wret.op = "seek"
    /\ wret.arg = [tag |-> "End", n |-> 0 - 1]
    /\ wret.res = Ok(3)
    /\ Len(writer.data) = 4
    /\ writer.pos = 3

\* C14: seek(Start(n)) with n > len fails with OutOfBounds{pos: the current
\* position, requested: n, len} and leaves the position unchanged.
SeekStartContract(c, c2, ret) ==
    (ret.arg.tag = "Start" /\ ret.arg.n > Len(c.data))
    => ret.res = OutOfBounds(c.pos, ret.arg.n, Len(c.data)) /\ c2 = c

C14_SeekStartPastEnd ==
    [][ /\ ReaderCalled({"seek"}) => SeekStartContract(reader, reader', rret')
        /\ WriterCalled({"seek"}) => SeekStartContract(writer, writer', wret') ]_vars

\* seek(Start(usize::MAX)) on a fresh reader over 4 bytes
C14_Witness ==
    /\ rret.op = "seek"
    /\ rret.arg = [tag |-> "Start", n |-> USIZE_MAX]
    /\ rret.res = OutOfBounds(0, USIZE_MAX, 4)
    /\ reader.pos = 0

\* C15: seek(End(n)) with n > 0 fails in every cursor state with OutOfBounds
\* whose requested field is the raw offset n, not len + n, and leaves the
\* position unchanged.
SeekEndContract(c, c2, ret) ==
    (ret.arg.tag = "End" /\ ret.arg.n > 0)
    => /\ ret.res.tag = "OutOfBounds"
       /\ ret.res.requested = ret.arg.n
       /\ c2 = c

C15_SeekPositiveEnd ==
    [][ /\ ReaderCalled({"seek"}) => SeekEndContract(reader, reader', rret')
        /\ WriterCalled({"seek"}) => SeekEndContract(writer, writer', wret') ]_vars

\* seek(End(1)) refused at position 2 of a 4-byte reader
C15_Witness ==
    /\ rret.op = "seek"
    /\ rret.arg = [tag |-> "End", n |-> 1]
    /\ rret.res = OutOfBounds(2, 1, 4)
    /\ reader.pos = 2

\* the byte order a mode stands for on this target
OrderOf(e) == IF e = "Native" THEN target_endian ELSE e

\* the value of type T whose bytes, most significant first, are msb
RECURSIVE UnsignedOf(_)
UnsignedOf(msb) ==
    IF msb = <<>> THEN 0
    ELSE 256 * UnsignedOf(SubSeq(msb, 1, Len(msb) - 1)) + msb[Len(msb)]

ValueOf(T, msb) ==
    LET top == IF is_signed(T) /\ msb[1] >= 128 THEN msb[1] - 256 ELSE msb[1]
    IN  top * Pow(256, Len(msb) - 1) + UnsignedOf(Tail(msb))

\* the value of type T that bytes hold in mode e
ValueInMode(T, e, bytes) ==
    ValueOf(T, IF OrderOf(e) = "Big" THEN bytes ELSE Reverse(bytes))

\* the bytes of v in mode e
BytesInMode(T, e, v) ==
    [i \in 1..size_of(T) |->
        IF OrderOf(e) = "Big" THEN ByteAt(v, size_of(T) - i) ELSE ByteAt(v, i - 1)]

\* C16: set_endian(e) changes only the endianness mode (position and buffer
\* contents stay); no other operation changes the mode; every numeric read,
\* peek and write uses the mode the cursor has at that call, that is, the
\* one of the latest set_endian.
C16_SetEndian ==
    [][ /\ ReaderCalled({"set_endian"})
           => reader' = [reader EXCEPT !.endian = rret'.arg]
        /\ WriterCalled({"set_endian"})
           => writer' = [writer EXCEPT !.endian = wret'.arg]
        /\ (rret = NoCall /\ rret' # NoCall /\ rret'.op # "set_endian")
           => reader'.endian = reader.endian
        /\ (wret = NoCall /\ wret' # NoCall /\ wret'.op # "set_endian")
           => writer'.endian = writer.endian
        /\ (ReaderCalled({"read", "peek"}) /\ rret'.arg \in NumTypes /\ IsOk(rret'.res))
           => rret'.res.val
              = ValueInMode(rret'.arg, reader.endian,
                            Slice(reader.data, reader.pos, size_of(rret'.arg)))
        /\ (WriterCalled({"write"}) /\ wret'.arg.T \in NumTypes /\ IsOk(wret'.res))
           => Slice(writer'.data, writer.pos, size_of(wret'.arg.T))
              = BytesInMode(wret'.arg.T, writer.endian, wret'.arg.val) ]_vars

\* set_endian(Big) on a reader at position 2 of <<18,52,86,120>>
C16_Witness ==
    /\ rret.op = "set_endian"
    /\ rret.arg = "Big"
    /\ reader.endian = "Big"
    /\ reader.data = <<18, 52, 86, 120>>
    /\ reader.pos = 2

\* what decoding a bool from byte b yields
BoolOf(b) ==
    CASE b = 0 -> Ok(FALSE)
      [] b = 1 -> Ok(TRUE)
      [] OTHER -> NotValid

\* C17: decoding a bool reads one byte and yields false for 0x00, true for
\* 0x01 and NotValid for every other byte; encoding a bool writes exactly one
\* byte, 0x00 or 0x01; hence a bool that is written and read back is returned.
C17_Bool ==
    [][ /\ (ReaderCalled({"read"}) /\ rret'.arg = "bool" /\ reader.pos < Len(reader.data))
           => /\ rret'.res = BoolOf(reader.data[reader.pos + 1])
              /\ reader' = [reader EXCEPT !.pos = reader.pos + 1]
        /\ (ReaderCalled({"peek"}) /\ rret'.arg = "bool" /\ reader.pos < Len(reader.data))
           => rret'.res = BoolOf(reader.data[reader.pos + 1])
        /\ (WriterCalled({"write"}) /\ wret'.arg.T = "bool" /\ IsOk(wret'.res))
           => /\ writer'.pos = writer.pos + 1
              /\ writer'.data[writer.pos + 1] = (IF wret'.arg.val THEN 1 ELSE 0)
              /\ \A i \in 1..Len(writer.data) :
                    i # writer.pos + 1 => writer'.data[i] = writer.data[i]
              /\ \A e \in Endian :
                    LET back == ByteReader_read(
                                    [ByteReader_with_endian(ByteWriter_as_slice(writer'), e)
                                        EXCEPT !.pos = writer.pos],
                                    "bool")
                    IN  back.ret = Ok(wret'.arg.val) /\ back.self.pos = writer'.pos ]_vars

\* the byte 0xFF of <<0, 1, 255, 2>> read as a bool
C17_Witness ==
    /\ rret.op = "read"
    /\ rret.arg = "bool"
    /\ rret.res = NotValid
    /\ reader.data = <<0, 1, 255, 2>>
    /\ reader.pos = 3

\* what decoding one element of type T at offset p of cursor c yields
RefElement(c, T, p) ==
    IF p + size_of(T) > Len(c.data)
    THEN InsufficientData(size_of(T), Len(c.data) - p)
    ELSE IF T = "bool"
         THEN BoolOf(c.data[p + 1])
         ELSE Ok(ValueInMode(T, c.endian, Slice(c.data, p, size_of(T))))

\* element j (from 1) of the [T; N] being decoded
ArrayElement(j) ==
    RefElement(reader, frame.T, frame.start + (j - 1) * size_of(frame.T))

\* slots 1..k have each been constructed once and touched by the destructor
\* d times, the others never
SlotsAre(k, d) ==
    \A j \in 1..frame.N :
        /\ frame.constructed[j] = (IF j <= k THEN 1 ELSE 0)
        /\ frame.destroyed[j] = (IF j <= k THEN d ELSE 0)

\* C18: decoding [T; N] decodes the elements in index order; if the element
\* at index k fails, exactly the k elements already constructed are each
\* destroyed exactly once and the error is returned; if all N succeed the
\* decoder destroys none and returns all N.  No element is ever destroyed
\* twice or without having been constructed.
C18_ArrayDecodeCleanup ==
    frame.pc # "none"
    => /\ \A j \in 1..frame.N :
             frame.destroyed[j] <= frame.constructed[j] /\ frame.constructed[j] <= 1
       /\ frame.pc = "loop" => SlotsAre(frame.i, 0)
       /\ (frame.pc = "returned" /\ IsOk(rret.res))
          => /\ SlotsAre(frame.N, 0)
             /\ Len(rret.res.val) = frame.N
             /\ \A j \in 1..frame.N : ArrayElement(j) = Ok(rret.res.val[j])
       /\ (frame.pc = "returned" /\ ~IsOk(rret.res))
          => \E k \in 0..(frame.N - 1) :
                /\ \A j \in 1..k : IsOk(ArrayElement(j))
                /\ ArrayElement(k + 1) = rret.res
                /\ SlotsAre(k, 1)

\* [bool; 3] over <<0, 1, 2, 1>>: the third element is not a bool, the first
\* two have been destroyed
C18_Witness ==
    /\ frame.pc = "returned"
    /\ frame.T = "bool"
    /\ frame.N = 3
    /\ frame.start = 0
    /\ reader.data = <<0, 1, 2, 1>>
    /\ rret.res = NotValid
    /\ frame.destroyed = <<1, 1, 0>>

\* N times the type T
Repeat(T, N) == [j \in 1..N |-> T]

\* where element j (from 1) of a composite begins, the composite beginning
\* at p0 and its elements having the types Types
OffsetOf(Types, p0, j) == p0 + SizeOfAll(SubSeq(Types, 1, j - 1))

\* the index of the first element that satisfies Bad, or 0
FirstBad(n, Bad(_)) ==
    IF \E k \in 1..n : Bad(k)
    THEN CHOOSE k \in 1..n : Bad(k) /\ \A j \in 1..(k - 1) : ~Bad(j)
    ELSE 0

\* The contract of a decode of elements of types Types from cursor c at p0,
\* that returned res and left the position at pos2: all elements decode and
\* their values are returned, or the first failing element's error is
\* returned and the position is where the elements before it ended, plus
\* `slack` bytes if the failing element is a bool that is present
DecodeInOrder(c, Types, p0, res, pos2, strict) ==
    LET n == Len(Types)
        el(j) == RefElement(c, Types[j], OffsetOf(Types, p0, j))
        bad(j) == ~IsOk(el(j))
        k == FirstBad(n, bad)
        slack == IF ~strict /\ Types[k] = "bool" /\ el(k) = NotValid THEN 1 ELSE 0
    IN  IF k = 0
        THEN /\ IsOk(res)
             /\ pos2 = OffsetOf(Types, p0, n + 1)
        ELSE /\ res = el(k)
             /\ pos2 = OffsetOf(Types, p0, k) + slack

\* the values of the elements of types Types that begin at p0 in cursor c
ValuesOf(c, Types, p0) ==
    [j \in 1..Len(Types) |-> RefElement(c, Types[j], OffsetOf(Types, p0, j)).val]

\* the element types a Vec<T> decode at p0 goes through: the u32 count and
\* then as many T as the count says, or one more than the buffer can hold
VecTypes(c, T, p0) ==
    LET count == RefElement(c, "u32", p0)
        fit == (Len(c.data) - (p0 + 4)) \div size_of(T)
    IN  IF IsOk(count)
        THEN <<"u32">> \o Repeat(T, Min(count.val, fit + 1))
        ELSE <<"u32">>

\* the bytes of one element in mode e
RefBytes(T, e, v) ==
    IF T = "bool" THEN <<IF v THEN 1 ELSE 0>> ELSE BytesInMode(T, e, v)

\* The contract of an encode of the values vals of types Types by cursor c,
\* that returned res and left the cursor as c2: the elements that fit before
\* the first that does not are written in order, every other byte is kept,
\* and the position is where the last of them ended
EncodeInOrder(c, Types, vals, res, c2) ==
    LET n == Len(Types)
        off(j) == OffsetOf(Types, c.pos, j)
        bad(j) == off(j + 1) > Len(c.data)
        k == FirstBad(n, bad)
        done == IF k = 0 THEN n ELSE k - 1
    IN  /\ IF k = 0
           THEN res = Ok(Unit)
           ELSE res = InsufficientData(size_of(Types[k]), Len(c.data) - off(k))
        /\ c2.pos = off(done + 1)
        /\ Len(c2.data) = Len(c.data)
        /\ \A j \in 1..done :
              Slice(c2.data, off(j), size_of(Types[j])) = RefBytes(Types[j], c.endian, vals[j])
        /\ \A b \in 1..Len(c.data) :
              (b <= c.pos \/ b > off(done + 1)) => c2.data[b] = c.data[b]

\* a tuple, fixed array or Vec is decoded or encoded element by element
CompositeInOrder(strict) ==
    /\ ReaderCalled({"read_tuple"})
       => /\ DecodeInOrder(reader, rret'.arg, reader.pos, rret'.res, reader'.pos, strict)
          /\ IsOk(rret'.res) => rret'.res.val = ValuesOf(reader, rret'.arg, reader.pos)
    /\ ReaderCalled({"read_Vec"})
       => LET Types == VecTypes(reader, rret'.arg, reader.pos)
          IN  /\ DecodeInOrder(reader, Types, reader.pos, rret'.res, reader'.pos, strict)
              /\ IsOk(rret'.res)
                 => rret'.res.val = Tail(ValuesOf(reader, Types, reader.pos))
    /\ (frame.pc \in {"loop", "guard_drop"} /\ frame'.pc = "returned")
       => LET Types == Repeat(frame.T, frame.N)
          IN  /\ DecodeInOrder(reader, Types, frame.start, rret'.res, reader'.pos, strict)
              /\ IsOk(rret'.res)
                 => rret'.res.val = ValuesOf(reader, Types, frame.start)
    /\ WriterCalled({"write_tuple"})
       => EncodeInOrder(writer, wret'.arg.T, wret'.arg.val, wret'.res, writer')
    /\ WriterCalled({"write_array"})
       => EncodeInOrder(writer, Repeat(wret'.arg.T, Len(wret'.arg.val)), wret'.arg.val,
                        wret'.res, writer')
    /\ WriterCalled({"write_Vec"})
       => EncodeInOrder(writer, <<"u32">> \o Repeat(wret'.arg.T, Len(wret'.arg.val)),
                        <<Len(wret'.arg.val)>> \o wret'.arg.val, wret'.res, writer')

C20_VecRoundTrip ==
    [][ /\ (WriterCalled({"write_Vec"}) /\ IsOk(wret'.res))
           => LET T == wret'.arg.T
                  val == wret'.arg.val
              IN  /\ Slice(writer'.data, writer.pos, 4)
                     = BytesInMode("u32", writer.endian, Len(val))
                  /\ \A j \in 1..Len(val) :
                        Slice(writer'.data, writer.pos + 4 + (j - 1) * size_of(T), size_of(T))
                        = RefBytes(T, writer.endian, val[j])
                  /\ writer'.pos = writer.pos + 4 + Len(val) * size_of(T)
        /\ (/\ ReaderCalled({"read_Vec"})
            /\ CompositeWritten
            /\ wret.op = "write_Vec"
            /\ rret'.arg = wret.arg.T
            /\ reader.endian = writer.endian
            /\ reader.pos = writer.pos - EncodedSize)
           => /\ rret'.res = Ok(wret.arg.val)
              /\ reader'.pos = writer.pos
              /\ reader'.pos = reader.pos + 4 + Len(wret.arg.val) * size_of(wret.arg.T) ]_vars

\* vec![1, 2, 3, 4, 5] of u32 written at 0 into 24 zeroed bytes and read back
C20_Witness ==
    /\ wret.op = "write_Vec"
    /\ wret.arg.T = "u32"
    /\ wret.arg.val = <<1, 2, 3, 4, 5>>
    /\ writer.pos = 24
    /\ rret.op = "read_Vec"
    /\ rret.res = Ok(<<1, 2, 3, 4, 5>>)
    /\ reader.pos = 24

\* the Unicode scalar value that the 1 to 4 bytes s encode in UTF-8, or -1
\* if they are not the encoding of one: the lead byte tells the length, the
\* others are continuation bytes, the value needs that length, is not above
\* U+10FFFF and is not a surrogate
ScalarOf(s) ==
    LET n == Len(s)
        low(i) == s[i] - 128
        lead == CASE n = 1 -> s[1] <= 127
                  [] n = 2 -> s[1] >= 192 /\ s[1] <= 223
                  [] n = 3 -> s[1] >= 224 /\ s[1] <= 239
                  [] n = 4 -> s[1] >= 240 /\ s[1] <= 247
        cp == CASE n = 1 -> s[1]
                [] n = 2 -> (s[1] - 192) * 64 + low(2)
                [] n = 3 -> (s[1] - 224) * 4096 + low(2) * 64 + low(3)
                [] n = 4 -> (s[1] - 240) * 262144 + low(2) * 4096 + low(3) * 64 + low(4)
        least == CASE n = 1 -> 0 [] n = 2 -> 128 [] n = 3 -> 2048 [] n = 4 -> 65536
    IN  IF /\ lead
           /\ \A i \in 2..n : s[i] >= 128 /\ s[i] <= 191
           /\ cp >= least
           /\ cp <= 1114111
           /\ ~(cp >= 55296 /\ cp <= 57343)
        THEN cp
        ELSE 0 - 1

\* b is a sequence of UTF-8 encodings of Unicode scalar values
RECURSIVE WellFormedUtf8(_)
WellFormedUtf8(b) ==
    \/ b = <<>>
    \/ \E k \in 1..Min(4, Len(b)) :
          /\ ScalarOf(SubSeq(b, 1, k)) >= 0
          /\ WellFormedUtf8(SubSeq(b, k + 1, Len(b)))

\* a step of a write of a String or CString, the first or a later one
TextWriterCalled(op) == wret' # wret /\ wret'.op = op

\* where value j (from 1) of the written values begins
TextOffset(j) == TextStart + TextSizes(wret.op, wret.arg, j - 1)

\* C21: decoding a String reads a 4-byte count and then that many bytes, and
\* returns them as text if and only if they are valid UTF-8, otherwise
\* NotValidUTF8; a written String is its length as a 4-byte count and its
\* bytes, and every String written (the empty one and multi-byte text
\* included) decodes to an equal String.
C21_String ==
    [][ /\ ReaderCalled({"read_String"})
           => LET count == RefElement(reader, "u32", reader.pos)
              IN  (IsOk(count) /\ reader.pos + 4 + count.val <= Len(reader.data))
                  => LET bytes == Slice(reader.data, reader.pos + 4, count.val)
                     IN  /\ reader'.pos = reader.pos + 4 + count.val
                         /\ rret'.res = IF WellFormedUtf8(bytes)
                                        THEN Ok(bytes)
                                        ELSE NotValidUTF8
        /\ (TextWriterCalled("write_String") /\ IsOk(wret'.res))
           => LET val == wret'.arg[Len(wret'.arg)]
              IN  /\ Slice(writer'.data, writer.pos, 4)
                     = BytesInMode("u32", writer.endian, Len(val))
                  /\ Slice(writer'.data, writer.pos + 4, Len(val)) = val
                  /\ writer'.pos = writer.pos + 4 + Len(val)
        /\ (/\ ReaderCalled({"read_String"})
            /\ TextWritten
            /\ wret.op = "write_String"
            /\ OrderOf(reader.endian) = OrderOf(writer.endian))
           => \A j \in 1..Len(wret.arg) :
                 reader.pos = TextOffset(j)
                 => /\ rret'.res = Ok(wret.arg[j])
                    /\ reader'.pos = TextOffset(j + 1) ]_vars

\* "€!" and "" written at 0 into 12 zeroed bytes, and both read back
C21_Witness ==
    /\ wret.op = "write_String"
    /\ wret.arg = << <<226, 130, 172, 33>>, <<>> >>
    /\ rret.op = "read_String"
    /\ rret.res = Ok(<<>>)
    /\ reader.pos = 12

FirstNul(data, p) ==
    IF \E n \in 0..(Len(data) - p - 1) : data[p + n + 1] = 0
    THEN CHOOSE n \in 0..(Len(data) - p - 1) :
            /\ data[p + n + 1] = 0
            /\ \A m \in 0..(n - 1) : data[p + m + 1] # 0
    ELSE Len(data) - p + 1

\* C23: decoding a CString consumes the bytes up to and including the first
\* 0x00 (the position advances by N + 1 for N content bytes) and returns the
\* N content bytes; encoding writes the content and then exactly one 0x00;
\* so one CString, or several written back to back, decode in order to
\* values equal to those written.
C23_CString ==
    [][ /\ (ReaderCalled({"read_CString"})
            /\ FirstNul(reader.data, reader.pos) <= ByteReader_rest_len(reader))
           => LET N == FirstNul(reader.data, reader.pos)
              IN  /\ rret'.res = Ok(Slice(reader.data, reader.pos, N))
                  /\ reader'.pos = reader.pos + N + 1
                  /\ reader'.data = reader.data
        /\ (TextWriterCalled("write_CString") /\ IsOk(wret'.res))
           => LET val == wret'.arg[Len(wret'.arg)]
              IN  /\ Slice(writer'.data, writer.pos, Len(val) + 1) = Append(val, 0)
                  /\ writer'.pos = writer.pos + Len(val) + 1
                  /\ Len(writer'.data) = Len(writer.data)
                  /\ \A b \in 1..Len(writer.data) :
                        (b <= writer.pos \/ b > writer'.pos)
                        => writer'.data[b] = writer.data[b]
        /\ (/\ ReaderCalled({"read_CString"})
            /\ TextWritten
            /\ wret.op = "write_CString")
           => \A j \in 1..Len(wret.arg) :
                 reader.pos = TextOffset(j)
                 => /\ rret'.res = Ok(wret.arg[j])
                    /\ reader'.pos = TextOffset(j + 1) ]_vars

\* "Hi" and the bytes FF FE written back to back from offset 3, and both
\* read back
C23_Witness ==
    /\ wret.op = "write_CString"
    /\ wret.arg = << <<72, 105>>, <<255, 254>> >>
    /\ writer.pos = 9
    /\ rret.op = "read_CString"
    /\ rret.res = Ok(<<255, 254>>)
    /\ reader.pos = 9

\* C28 as stated: decoding a CString from remaining data that holds no 0x00
\* ends and fails with Error::Custom, the wrapped C-string validation error.
C28_AsStated ==
    [][ (ReaderCalled({"read_CString"})
         /\ FirstNul(reader.data, reader.pos) > ByteReader_rest_len(reader))
        => rret'.res = Custom ]_vars

\* C24: std::io::Read of ByteReader and std::io::Write of ByteWriter never
\* return an error: each call transfers exactly min(rest_len(), buf.len())
\* bytes starting at the position, advances the position by that amount and
\* returns it (0 when no bytes remain), truncating to what remains.
C24_IoReadWrite ==
    [][ /\ ReaderCalled({"io_read"})
           => LET k == IF rret'.arg <= Len(reader.data) - reader.pos
                       THEN rret'.arg
                       ELSE Len(reader.data) - reader.pos
              IN  /\ rret'.res = Ok([n |-> k, bytes |-> Slice(reader.data, reader.pos, k)])
                  /\ reader'.pos = reader.pos + k
                  /\ reader'.data = reader.data
        /\ WriterCalled({"io_write"})
           => LET buf == wret'.arg
                  k == IF Len(buf) <= Len(writer.data) - writer.pos
                       THEN Len(buf)
                       ELSE Len(writer.data) - writer.pos
              IN  /\ wret'.res = Ok(k)
                  /\ writer'.pos = writer.pos + k
                  /\ Len(writer'.data) = Len(writer.data)
                  /\ \A b \in 1..Len(writer.data) :
                        writer'.data[b] = IF b > writer.pos /\ b <= writer.pos + k
                                          THEN buf[b - writer.pos]
                                          ELSE writer.data[b] ]_vars

\* five bytes offered to a writer with two bytes left: two are written
C24_Witness ==
    /\ wret.op = "io_write"
    /\ wret.arg = <<1, 0, 1, 0, 1>>
    /\ wret.res = Ok(2)
    /\ writer.data = <<0, 0, 1, 0>>
    /\ writer.pos = 4

\* C25 as stated: a read_ascii(n) call that fails, with InsufficientData,
\* NotValidUTF8 or NotValidAscii, leaves the position unchanged.
C25_AsStated ==
    [][ (ReaderCalled({"read_ascii"})
         /\ rret'.res.tag \in {"InsufficientData", "NotValidUTF8", "NotValidAscii"})
        => reader'.pos = reader.pos ]_vars

\* a seek that resolves below 0 or whose offset cannot be negated: cursor c,
\* argument arg, cursor c2 and result res after the call
SeekBelowStart(c, arg) ==
    \/ arg.tag = "Current" /\ c.pos + arg.n < 0
    \/ arg.tag = "End" /\ arg.n < 0 /\ 0 - arg.n > Len(c.data)
    \/ arg.tag \in {"Current", "End"} /\ arg.n = ISIZE_MIN

SeekRefused(c, c2, res) == res.tag = "OutOfBounds" /\ c2 = c

\* C26 as stated: seek(Current(d)) with position + d < 0, seek(End(-k)) with
\* k > len, and any offset whose resolution overflows, isize::MIN included,
\* return OutOfBounds with the position unchanged; no such call panics or
\* resolves to a wrapped in-range position.
C26_AsStated ==
    [][ /\ (ReaderCalled({"seek"}) /\ SeekBelowStart(reader, rret'.arg))
           => SeekRefused(reader, reader', rret'.res)
        /\ (WriterCalled({"seek"}) /\ SeekBelowStart(writer, wret'.arg))
           => SeekRefused(writer, writer', wret'.res) ]_vars

\* C27 as stated: can_write(n) returns true if and only if n <= rest_len(),
\* that is, exactly when write_bytes of n bytes at the position would
\* succeed, for every n, those for which position + n overflows included.
C27_AsStated ==
    [][ WriterCalled({"can_write"})
        => /\ wret'.res = Ok(wret'.arg <= ByteWriter_rest_len(writer))
           /\ wret'.res = Ok(IsOk(ByteWriter_check_bounds(writer, wret'.arg)))
           /\ writer' = writer ]_vars

\* C29: for every built-in numeric type and bool, in any reader state
\* peek::<T>() returns exactly the result, the same value or the same error,
\* that read::<T>() returns when called from that same state.
C29_PeekAsRead ==
    [][ /\ ReaderCalled({"peek"})
           => rret'.res = ByteReader_read(reader, rret'.arg).ret
        /\ ReaderCalled({"read"})
           => rret'.res = ByteReader_peek(reader, rret'.arg).ret ]_vars

\* a bool peeked where the byte is 0xFF is refused, as it is when read; a
\* u16 peeked there in big-endian is 0xFF02, as it is when read
C29_Witness ==
    /\ rret.op = "peek"
    /\ rret.arg = "u16"
    /\ rret.res = Ok(65282)
    /\ reader.data = <<0, 1, 255, 2>>
    /\ reader.pos = 2
    /\ ByteReader_peek(reader, "bool").ret = NotValid
    /\ ByteReader_read(reader, "bool").ret = NotValid

\* a node can be peeked at the position of the call, and one of the two low
\* bits of the byte there is set
Flagged ==
    /\ frame.start + 4 <= Len(reader.data)
    /\ BitAndN(reader.data[frame.start + 1], 3, 8) # 0

\* the activations of TreeNode::peek that have peeked their u32, and those
\* that have peeked their flag byte as well
PastVal == {"flg", "left", "left_wait", "right", "right_wait"}

PastFlg == {"left", "left_wait", "right", "right_wait"}

\* C30: inside a Peekable implementation every PeekStream::peek call reads
\* from the same, unadvanced position, so the peeks of the u32 and of the
\* flag byte start at the same byte; and a self-referential Peekable that
\* peeks itself again when the flag byte has one of its bits set re-enters
\* without end: no activation ever returns, each activation peeks the same
\* values as the one before it, and the call ends only when the depth guard
\* of 100 panics, in the 101st activation.
C30_PeekTree ==
    frame.pc \in {"tree", "panicked", "returned"}
    => /\ reader.pos = frame.start
       /\ \A k \in 1..Len(frame.stack) :
             LET a == frame.stack[k]
             IN  /\ a.at \in PastVal
                    => a.val = ValueInMode("u32", reader.endian,
                                           Slice(reader.data, frame.start, 4))
                 /\ a.at \in PastFlg => a.flg = reader.data[frame.start + 1]
                 /\ (a.at \in PastFlg /\ k < Len(frame.stack)) => Flagged
       /\ Flagged
          => /\ frame.pc # "returned"
             /\ \A k \in 1..Len(frame.stack) : frame.stack[k].at # "ret"
             /\ \A k \in 1..(Len(frame.stack) - 1) :
                   frame.stack[k].at \in {"left_wait", "right_wait"}
             /\ Len(frame.stack) + frame.REC_DEPTH
                \in {REC_DEPTH_INIT, REC_DEPTH_INIT + 1}
       /\ frame.pc = "panicked"
          => /\ Flagged
             /\ frame.REC_DEPTH = 0
             /\ Len(frame.stack) = REC_DEPTH_INIT + 1
       /\ frame.pc = "returned"
          => /\ ~Flagged
             /\ Len(frame.stack) = 0

\* the data of peek_tree: the flag byte is the first byte of the u32, 0x01,
\* and the guard panics in the 101st activation with the position still 0
C30_Witness ==
    /\ frame.pc = "panicked"
    /\ rret.res = Panic
    /\ Len(frame.stack) = REC_DEPTH_INIT + 1
    /\ frame.stack[1].val = 1
    /\ frame.stack[1].flg = 1
    /\ reader.data = <<1, 0, 0, 0, 3, 2, 0, 0, 0, 0, 3, 0, 0, 0, 0>>
    /\ reader.pos = 0
    /\ reader.endian = "Little"

====
